---- MODULE Spec2Model ----
(***************************************************************************)
(* The markup-to-docx converter of src/utils/settings.ts: the inline       *)
(* tokenizer parseInlineStyles, the image resolver fetchImageBuffer and    *)
(* the line scanner downloadDocx.  The file holds two versions of the      *)
(* converter: the earlier one (lines 68-262) and the later one (lines      *)
(* 400-740).  Text is a sequence of one-character strings.                 *)
(***************************************************************************)
EXTENDS Integers, Sequences, FiniteSets, TLC

VARIABLES
    text,       \* the line handed to parseInlineStyles
    runs,       \* the runs it returned
    called,     \* which version of parseInlineStyles was applied
    mode,       \* what is exercised: inline (the tokenizer), single (one run), pair
    ver,        \* the version of downloadDocx that runs: 1 earlier, 2 later
    lines,      \* per run: markdown.split('\n')
    i,          \* per run: the line index of the scan loop (0-based)
    sections,   \* per run: the blocks pushed so far
    pc,         \* per run: where the run is: loop, code, table, math, await, done
    acc,        \* per run: codeLines / tableLines / tableRows / formula
    inflight,   \* per run: the calls of fetchImageBuffer not yet returned to the scan
    origin,     \* per run, history: the line index each block of sections came from
    iterStart,  \* per run, history: the line index at which each iteration began
    netlog,     \* per run, history: what the network delivered to each fetch
    template,   \* the template argument of downloadDocx
    customStyle,\* the customStyle argument: <<>> if absent, else <<the object>>
    docStyle,   \* the style that downloadDocx resolved (its const style)
    headLine,   \* the heading line whose runs are styled
    runStyle,   \* the font, size and color handed to parseInlineStyles
    spc         \* where the styling is: off, call, scan, heading, paragraph

tokVars == <<text, runs, called>>

scanVars == <<mode, ver, lines, i, sections, pc, acc, inflight, origin, iterStart, netlog>>

styleVars == <<template, customStyle, docStyle, headLine, runStyle, spc>>

vars == <<text, runs, called, mode, ver, lines, i, sections, pc, acc, inflight,
          origin, iterStart, netlog, template, customStyle, docStyle, headLine,
          runStyle, spc>>

(***************************************************************************)
(* Bounds of the model.                                                    *)
(***************************************************************************)
MaxTextLen == 4
MaxLines == 3
MaxPairLines == 2
MaxDelay == 1

(***************************************************************************)
(* String primitives of the JavaScript runtime.                            *)
(***************************************************************************)
MinOf(S) == CHOOSE x \in S : \A y \in S : x <= y

IsPrefixAt(s, p, k) ==
    /\ k >= 1
    /\ k + Len(p) - 1 <= Len(s)
    /\ SubSeq(s, k, k + Len(p) - 1) = p

StartsWith(s, p) == IsPrefixAt(s, p, 1)

\* position (1-based) of the first occurrence of p in s at or after k; 0 if none
IndexOfFrom(s, p, k) ==
    LET C == {j \in k..(Len(s) - Len(p) + 1) : IsPrefixAt(s, p, j)}
    IN  IF C = {} THEN 0 ELSE MinOf(C)

Includes(s, p) == IndexOfFrom(s, p, 1) # 0

\* the backtick character (the module's lexer accepts none inside a string)
Backtick == "<backtick>"

IsSpace(c) == c \in {" ", "\t"}

Trim(s) ==
    LET NS == {j \in 1..Len(s) : ~IsSpace(s[j])}
    IN  IF NS = {} THEN <<>>
        ELSE SubSeq(s, MinOf(NS), CHOOSE x \in NS : \A y \in NS : y <= x)

Digit(d) == <<"0", "1", "2", "3", "4", "5", "6", "7", "8", "9">>[d + 1]

RECURSIVE NumToString(_)
NumToString(n) ==
    IF n < 10 THEN <<Digit(n)>> ELSE NumToString(n \div 10) \o <<Digit(n % 10)>>

(***************************************************************************)
(* parseInlineStyles, later version.                                       *)
(***************************************************************************)
DisplayPlaceholder(k) ==
    <<"_", "_", "M", "A", "T", "H", "_", "D", "I", "S", "P", "L", "A", "Y", "_">>
        \o NumToString(k) \o <<"_", "_">>

InlinePlaceholder(k) ==
    <<"_", "_", "M", "A", "T", "H", "_", "I", "N", "L", "I", "N", "E", "_">>
        \o NumToString(k) \o <<"_", "_">>

\* One String.replace pass of a math regex (delim, one or more characters,
\* lazily, delim) over s.  The
\* state st is [out, phs, idx]: the text produced so far, the placeholder
\* table and placeholderIndex.  k is the position the regex engine is at.
RECURSIVE ReplaceMath(_, _, _, _, _)
ReplaceMath(s, delim, isDisplay, k, st) ==
    IF k > Len(s) THEN st
    ELSE
        LET close == IF IsPrefixAt(s, delim, k)
                     THEN IndexOfFrom(s, delim, k + Len(delim) + 1)
                     ELSE 0
        IN  IF close = 0
            THEN ReplaceMath(s, delim, isDisplay, k + 1,
                             [st EXCEPT !.out = Append(@, s[k])])
            ELSE
                LET ph == IF isDisplay THEN DisplayPlaceholder(st.idx)
                                       ELSE InlinePlaceholder(st.idx)
                    content == SubSeq(s, k + Len(delim), close - 1)
                IN  ReplaceMath(s, delim, isDisplay, close + Len(delim),
                        [out |-> st.out \o ph,
                         phs |-> Append(st.phs,
                                    [placeholder |-> ph,
                                     content     |-> Trim(content),
                                     isDisplay   |-> isDisplay]),
                         idx |-> st.idx + 1])

AfterDisplay(s) ==
    ReplaceMath(s, <<"$", "$">>, TRUE, 1, [out |-> <<>>, phs |-> <<>>, idx |-> 0])

AfterInline(s) ==
    LET d == AfterDisplay(s)
    IN  ReplaceMath(d.out, <<"$">>, FALSE, 1, [out |-> <<>>, phs |-> d.phs, idx |-> d.idx])

ProcessedText(s) == AfterInline(s).out

MathPlaceholders(s) == AfterInline(s).phs

\* The alternatives of the marker group that can open at a character, in the
\* order the regex engine tries them: three stars then two, two underscores
\* then one, a backtick (and a dollar in the earlier version: withDollar).
\* A single star is no alternative of the group.
MarkerCandidates(c, withDollar) ==
    IF c = "*" THEN << <<"*", "*", "*">>, <<"*", "*">> >>
    ELSE IF c = "_" THEN << <<"_", "_">>, <<"_">> >>
    ELSE IF c = Backtick THEN << <<Backtick>> >>
    ELSE IF c = "$" /\ withDollar THEN << <<"$">> >>
    ELSE <<>>

NoMatch == [index |-> 0, marker |-> <<>>, content |-> <<>>, end |-> 0]

\* The style regex anchored at position s: the first alternative, in order,
\* that opens at s and closes later in the line; its content is the shortest.
MatchAt(t, s, withDollar) ==
    LET cands == MarkerCandidates(t[s], withDollar)
        good  == {n \in 1..Len(cands) :
                    /\ IsPrefixAt(t, cands[n], s)
                    /\ IndexOfFrom(t, cands[n], s + Len(cands[n])) # 0}
    IN  IF good = {} THEN NoMatch
        ELSE LET m  == cands[MinOf(good)]
                 cl == IndexOfFrom(t, m, s + Len(m))
             IN  [index   |-> s,
                  marker  |-> m,
                  content |-> SubSeq(t, s + Len(m), cl - 1),
                  end     |-> cl + Len(m)]

\* regex.exec with the g flag from position from (lastIndex + 1)
Exec(t, from, withDollar) ==
    LET hits == {s \in from..Len(t) : MatchAt(t, s, withDollar).index # 0}
    IN  IF hits = {} THEN NoMatch ELSE MatchAt(t, MinOf(hits), withDollar)

\* the while loop over combinedRegex.exec and the trailing text
RECURSIVE SegmentLoop(_, _, _)
SegmentLoop(t, last, sofar) ==
    LET m == Exec(t, last, FALSE)
    IN  IF m.index = 0
        THEN IF last <= Len(t)
             THEN Append(sofar, [text |-> SubSeq(t, last, Len(t)), style |-> <<>>])
             ELSE sofar
        ELSE SegmentLoop(t, m.end,
                (IF m.index > last
                 THEN Append(sofar, [text |-> SubSeq(t, last, m.index - 1), style |-> <<>>])
                 ELSE sofar)
                \o <<[text |-> m.content, style |-> m.marker]>>)

Segments(s) == SegmentLoop(ProcessedText(s), 1, <<>>)

Run(t, style) == [text |-> t, style |-> style]

\* a chain that takes every segment for a bold one
StyleAlwaysBold(m) == "bold"

\* the style a delimiter selects (the if-chain over segment.style)
StyleOfMarker(m) ==
    IF m = <<"*", "*", "*">> THEN "bolditalic"
    ELSE IF m = <<"*", "*">> \/ m = <<"_", "_">> THEN "bold"
    ELSE IF m = <<"*">> \/ m = <<"_">> THEN "italic"
    ELSE IF m = <<Backtick>> THEN "code"
    ELSE "plain"

\* mathPlaceholders.find(m => segmentText.includes(m.placeholder)): its index, or 0
FindPlaceholder(phs, segText) ==
    LET C == {k \in 1..Len(phs) : Includes(segText, phs[k].placeholder)}
    IN  IF C = {} THEN 0 ELSE MinOf(C)

\* parts[0] and parts[1] of segmentText.split(placeholder)
SplitParts(segText, ph) ==
    LET p1   == IndexOfFrom(segText, ph, 1)
        rest == SubSeq(segText, p1 + Len(ph), Len(segText))
        p2   == IndexOfFrom(rest, ph, 1)
    IN  <<SubSeq(segText, 1, p1 - 1),
          IF p2 = 0 THEN rest ELSE SubSeq(rest, 1, p2 - 1)>>

SegmentRuns(seg, phs) ==
    LET k == FindPlaceholder(phs, seg.text)
    IN  IF k # 0
        THEN LET parts == SplitParts(seg.text, phs[k].placeholder)
             IN  (IF parts[1] # <<>> THEN <<Run(parts[1], "plain")>> ELSE <<>>)
                 \o <<Run(phs[k].content, "math")>>
                 \o (IF parts[2] # <<>> THEN <<Run(parts[2], "plain")>> ELSE <<>>)
        ELSE <<Run(seg.text, StyleOfMarker(seg.style))>>

RECURSIVE RunsOfSegments(_, _)
RunsOfSegments(segs, phs) ==
    IF segs = <<>> THEN <<>>
    ELSE SegmentRuns(Head(segs), phs) \o RunsOfSegments(Tail(segs), phs)

parseInlineStyles(s) == RunsOfSegments(Segments(s), MathPlaceholders(s))

(***************************************************************************)
(* parseInlineStyles, earlier version: one regex, the dollar among the     *)
(* markers.                                                                *)
(***************************************************************************)
StyleOfMarkerV1(m) ==
    IF m = <<"$">> THEN "math" ELSE StyleOfMarker(m)

RECURSIVE RunLoopV1(_, _, _)
RunLoopV1(t, last, sofar) ==
    LET m == Exec(t, last, TRUE)
    IN  IF m.index = 0
        THEN IF last <= Len(t)
             THEN Append(sofar, Run(SubSeq(t, last, Len(t)), "plain"))
             ELSE sofar
        ELSE RunLoopV1(t, m.end,
                (IF m.index > last
                 THEN Append(sofar, Run(SubSeq(t, last, m.index - 1), "plain"))
                 ELSE sofar)
                \o <<Run(m.content, StyleOfMarkerV1(m.marker))>>)

parseInlineStylesV1(s) == RunLoopV1(s, 1, <<>>)

(***************************************************************************)
(* The tokenizer applied to a line: the inputs are all texts over a small  *)
(* alphabet and the example lines of the specification.                    *)
(***************************************************************************)
Alphabet == {"a", " ", "*", "_", Backtick, "$"}

RECURSIVE TextsUpTo(_)
TextsUpTo(n) ==
    IF n = 0 THEN {<<>>}
    ELSE LET S == TextsUpTo(n - 1)
         IN  S \cup {Append(t, c) : t \in {u \in S : Len(u) = n - 1}, c \in Alphabet}

\* $a_b$ is *legal*
ExampleMath ==
    <<"$", "a", "_", "b", "$", " ", "i", "s", " ", "*", "l", "e", "g", "a", "l", "*">>

\* **bold** and *italic*
ExampleEmphasis ==
    <<"*", "*", "b", "o", "l", "d", "*", "*", " ", "a", "n", "d", " ",
      "*", "i", "t", "a", "l", "i", "c", "*">>

\* $a$ and $b$
ExampleTwoMath ==
    <<"$", "a", "$", " ", "a", "n", "d", " ", "$", "b", "$">>

Texts == TextsUpTo(MaxTextLen) \cup {ExampleMath, ExampleEmphasis, ExampleTwoMath}

(***************************************************************************)
(* Line classification and the pieces of downloadDocx that work on one     *)
(* line.                                                                   *)
(***************************************************************************)
Fence == <<Backtick, Backtick, Backtick>>

Tokens(v, s) == IF v = 1 THEN parseInlineStylesV1(s) ELSE parseInlineStyles(s)

\* the length of the match of ^#+
HeadingLevel(line) ==
    LET other == {j \in 1..Len(line) : line[j] # "#"}
    IN  IF other = {} THEN Len(line) ELSE MinOf(other) - 1

\* a heading that keeps its marker
HeadingContentRaw(line) == line

\* line.replace(/^#+\s*/, '')
HeadingContent(line) ==
    LET stop == {j \in 1..Len(line) :
                    j > HeadingLevel(line) /\ ~IsSpace(line[j])}
    IN  IF stop = {} THEN <<>> ELSE SubSeq(line, MinOf(stop), Len(line))

\* line.match of the image pattern: "![", alt (lazy), "](", url (lazy), ")"
ImageMatch(line) ==
    LET j == IF StartsWith(line, <<"!", "[">>)
             THEN IndexOfFrom(line, <<"]", "(">>, 3) ELSE 0
        k == IF j = 0 THEN 0 ELSE IndexOfFrom(line, <<")">>, j + 2)
    IN  IF k = 0 THEN [ok |-> FALSE, alt |-> <<>>, url |-> <<>>]
        ELSE [ok  |-> TRUE,
              alt |-> SubSeq(line, 3, j - 1),
              url |-> SubSeq(line, j + 2, k - 1)]

\* the if / else-if chain of the scan loop, on the trimmed line
Classify(v, line) ==
    IF StartsWith(line, <<"#">>) THEN "heading"
    ELSE IF v = 2 /\ ImageMatch(line).ok THEN "image"
    ELSE IF StartsWith(line, Fence) THEN "code"
    ELSE IF StartsWith(line, <<"|">>) THEN "table"
    ELSE IF v = 1 /\ StartsWith(line, <<"$", "$">>) THEN "math"
    ELSE IF v = 1 /\ StartsWith(line, <<">">>) THEN "quote"
    ELSE "para"

\* String.split on a one-character separator
RECURSIVE SplitOn(_, _)
SplitOn(s, c) ==
    LET at == IndexOfFrom(s, <<c>>, 1)
    IN  IF at = 0 THEN <<s>>
        ELSE <<SubSeq(s, 1, at - 1)>> \o SplitOn(SubSeq(s, at + 1, Len(s)), c)

RECURSIVE MapTrim(_)
MapTrim(cells) ==
    IF cells = <<>> THEN <<>> ELSE <<Trim(Head(cells))>> \o MapTrim(Tail(cells))

\* row.replace(/^\||\|$/g, ''): the pipe at the start, and a pipe at the end
StripBoundaryPipes(row) ==
    LET a == IF StartsWith(row, <<"|">>) THEN SubSeq(row, 2, Len(row)) ELSE row
    IN  IF a # <<>> /\ a[Len(a)] = "|" THEN SubSeq(a, 1, Len(a) - 1) ELSE a

\* later version: the cells of one table line
RowCells(row) == MapTrim(SplitOn(StripBoundaryPipes(row), "|"))

\* cell.match(/^-+$/)
IsDashes(cell) == cell # <<>> /\ \A j \in 1..Len(cell) : cell[j] = "-"

\* later version: row.every(cell => cell.match(/^-+$/))
IsSeparatorRow(cells) == \A j \in 1..Len(cells) : IsDashes(cells[j])

RECURSIVE SurvivingRows(_)
SurvivingRows(tableLines) ==
    IF tableLines = <<>> THEN <<>>
    ELSE LET cells == RowCells(Head(tableLines))
         IN  (IF IsSeparatorRow(cells) THEN <<>> ELSE <<cells>>)
             \o SurvivingRows(Tail(tableLines))

\* earlier version: rawRow.match of pipe, one or more of colon, space, dash, pipe
IsSeparatorRowV1(rawRow) ==
    LET other == {j \in 2..Len(rawRow) : ~(IsSpace(rawRow[j]) \/ rawRow[j] \in {":", "-"})}
    IN  /\ StartsWith(rawRow, <<"|">>)
        /\ other # {}
        /\ MinOf(other) > 2
        /\ rawRow[MinOf(other)] = "|"

RECURSIVE FilterCellsV1(_, _)
FilterCellsV1(cells, rawRow) ==
    IF cells = <<>> THEN <<>>
    ELSE LET c == Head(cells)
         IN  (IF Trim(c) # <<>> \/ Includes(rawRow, <<"|">> \o c \o <<"|">>)
              THEN <<c>> ELSE <<>>)
             \o FilterCellsV1(Tail(cells), rawRow)

\* earlier version: the cells of one table line
RowCellsV1(rawRow) == MapTrim(FilterCellsV1(SplitOn(rawRow, "|"), rawRow))

RECURSIVE TokenizeCells(_, _)
TokenizeCells(v, cells) ==
    IF cells = <<>> THEN <<>>
    ELSE <<Tokens(v, Head(cells))>> \o TokenizeCells(v, Tail(cells))

RECURSIVE TokenizeRows(_, _)
TokenizeRows(v, rows) ==
    IF rows = <<>> THEN <<>>
    ELSE <<TokenizeCells(v, Head(rows))>> \o TokenizeRows(v, Tail(rows))

\* earlier version: line.replace(/\$\$/g, '')
RECURSIVE RemoveDollarPairs(_)
RemoveDollarPairs(s) ==
    IF s = <<>> THEN <<>>
    ELSE IF StartsWith(s, <<"$", "$">>) THEN RemoveDollarPairs(SubSeq(s, 3, Len(s)))
    ELSE <<Head(s)>> \o RemoveDollarPairs(Tail(s))

\* earlier version: line.replace(/^>\s*/, '')
QuoteContent(line) ==
    LET stop == {j \in 2..Len(line) : ~IsSpace(line[j])}
    IN  IF stop = {} THEN <<>> ELSE SubSeq(line, MinOf(stop), Len(line))

(***************************************************************************)
(* The blocks pushed to sections.                                          *)
(***************************************************************************)
Block(kind) ==
    [kind |-> kind, level |-> 0, runs |-> <<>>, lines |-> <<>>, rows |-> <<>>,
     text |-> <<>>, width |-> 0, height |-> 0,
     heading |-> "", align |-> "", sizeOffset |-> 0]

\* level === 1 ? HEADING_1 : (level === 2 ? HEADING_2 : HEADING_3)
HeadingStyle(level) ==
    IF level = 1 THEN "HEADING_1" ELSE IF level = 2 THEN "HEADING_2" ELSE "HEADING_3"

\* level === 1 ? CENTER : LEFT
HeadingAlign(level) == IF level = 1 THEN "center" ELSE "left"

\* what the heading adds to the base font size: (4 - level) * 2
SizeOffset(level) == (4 - level) * 2

HeadingBlock(v, line) ==
    [Block("Heading") EXCEPT !.level      = HeadingLevel(line),
                             !.runs       = Tokens(v, HeadingContent(line)),
                             !.heading    = HeadingStyle(HeadingLevel(line)),
                             !.align      = HeadingAlign(HeadingLevel(line)),
                             !.sizeOffset = SizeOffset(HeadingLevel(line))]

ParagraphBlock(v, line) == [Block("Paragraph") EXCEPT !.runs = Tokens(v, line)]

QuoteBlock(v, line) == [Block("BlockQuote") EXCEPT !.runs = Tokens(v, QuoteContent(line))]

CodeBlock(codeLines) == [Block("CodeBlock") EXCEPT !.lines = codeLines]

TableBlock(v, rows) == [Block("Table") EXCEPT !.rows = TokenizeRows(v, rows)]

MathBlock(formula) == [Block("BlockMath") EXCEPT !.text = Trim(formula)]

MAX_WIDTH == 600

\* a scaling that truncates
ScaledHeightTruncated(w, h) == (h * 600) \div w

\* Math.round(finalHeight * ratio) with ratio = MAX_WIDTH / finalWidth
ScaledHeight(w, h) == (2 * h * MAX_WIDTH + w) \div (2 * w)

CaptionPrefix == <<"\n", "<tu>", ":", " ">>

ImageBlock(alt, img) ==
    [Block("Image") EXCEPT
        !.text   = alt,
        !.width  = IF img.width > MAX_WIDTH THEN MAX_WIDTH ELSE img.width,
        !.height = IF img.width > MAX_WIDTH THEN ScaledHeight(img.width, img.height)
                                            ELSE img.height,
        !.runs   = <<Run(CaptionPrefix \o alt, "italic")>>]

\* the text "[Image: <alt> - Download Failed]"
FailedText(alt) ==
    <<"[", "I", "m", "a", "g", "e", ":", " ">> \o alt \o
    <<" ", "-", " ", "D", "o", "w", "n", "l", "o", "a", "d", " ",
      "F", "a", "i", "l", "e", "d", "]">>

FailedBlock(alt) ==
    [Block("ImageFailed") EXCEPT !.runs = <<Run(FailedText(alt), "plain")>>]

Runs == {1, 2}

ScanIdle ==
    /\ mode = "inline"
    /\ ver = 2
    /\ lines = [r \in Runs |-> <<>>]
    /\ i = [r \in Runs |-> 0]
    /\ sections = [r \in Runs |-> <<>>]
    /\ pc = [r \in Runs |-> "off"]
    /\ acc = [r \in Runs |-> <<>>]
    /\ inflight = [r \in Runs |-> <<>>]
    /\ origin = [r \in Runs |-> <<>>]
    /\ iterStart = [r \in Runs |-> <<>>]
    /\ netlog = [r \in Runs |-> <<>>]

StyleIdle ==
    /\ template = "STANDARD"
    /\ customStyle = <<>>
    /\ docStyle = <<>>
    /\ headLine = <<>>
    /\ runStyle = <<>>
    /\ spc = "off"

InitInline ==
    /\ text \in Texts
    /\ runs = <<>>
    /\ called = "none"
    /\ ScanIdle
    /\ StyleIdle

Tokenize ==
    /\ called = "none"
    /\ runs' = parseInlineStyles(text)
    /\ called' = "v2"
    /\ UNCHANGED text
    /\ UNCHANGED scanVars
    /\ UNCHANGED styleVars

TokenizeV1 ==
    /\ called = "none"
    /\ runs' = parseInlineStylesV1(text)
    /\ called' = "v1"
    /\ UNCHANGED text
    /\ UNCHANGED scanVars
    /\ UNCHANGED styleVars

NextInline == Tokenize \/ TokenizeV1

SpecInline == InitInline /\ [][NextInline]_vars

(***************************************************************************)
(* The scan loop of downloadDocx.  A run is one call; its locals are the    *)
(* run's components of the variables.                                      *)
(***************************************************************************)
\* the trimmed line the loop is at
Cur(r) == Trim(lines[r][i[r] + 1])

AtLine(r, kind) ==
    /\ pc[r] = "loop"
    /\ i[r] < Len(lines[r])
    /\ Classify(ver, Cur(r)) = kind

\* the list a run pushes to: the sections array its own call created
SharedOwner(r) == 1
Owner(r) == r

Push(r, b, from) ==
    /\ sections' = [sections EXCEPT ![Owner(r)] = Append(@, b)]
    /\ origin' = [origin EXCEPT ![Owner(r)] = Append(@, from)]

Advance(r) == i' = [i EXCEPT ![r] = @ + 1]

BeginIteration(r) == iterStart' = [iterStart EXCEPT ![r] = Append(@, i[r])]

\* where the current iteration began
IterLine(r) == iterStart[r][Len(iterStart[r])]

Heading(r) ==
    /\ AtLine(r, "heading")
    /\ Push(r, HeadingBlock(ver, Cur(r)), i[r])
    /\ Advance(r)
    /\ BeginIteration(r)
    /\ UNCHANGED <<mode, ver, lines, pc, acc, inflight, netlog>>
    /\ UNCHANGED tokVars
    /\ UNCHANGED styleVars

\* where the scan is while fetchImageBuffer has not returned: it is awaited
NoAwaitPc == "loop"
AwaitPc == "await"

\* null; threw says that an exception left fetchImageBuffer instead
NoResult == [ok |-> FALSE, width |-> 0, height |-> 0, threw |-> FALSE]

NoEnv == [resp |-> "", blob |-> "", probe |-> "", width |-> 0, height |-> 0]

ImageStart(r) ==
    /\ AtLine(r, "image")
    /\ inflight' = [inflight EXCEPT ![r] =
            Append(@, [line   |-> i[r],
                       alt    |-> ImageMatch(Cur(r)).alt,
                       url    |-> ImageMatch(Cur(r)).url,
                       phase  |-> "fetch",
                       ticks  |-> 0,
                       env    |-> NoEnv,
                       result |-> NoResult])]
    /\ pc' = [pc EXCEPT ![r] = AwaitPc]
    /\ BeginIteration(r)
    /\ UNCHANGED <<mode, ver, lines, i, sections, origin, acc, netlog>>
    /\ UNCHANGED tokVars
    /\ UNCHANGED styleVars

(***************************************************************************)
(* fetchImageBuffer: the network and the decoder decide each step.         *)
(***************************************************************************)
DataPrefix == <<"d", "a", "t", "a", ":", "i", "m", "a", "g", "e">>

FallbackWidth == 600
FallbackHeight == 400

NaturalDims == {<<300, 200>>, <<1200, 900>>, <<1200, 899>>}

\* the network takes its time
NetDelay(r) ==
    \E k \in 1..Len(inflight[r]) :
        /\ inflight[r][k].phase # "settled"
        /\ inflight[r][k].ticks < MaxDelay
        /\ inflight' = [inflight EXCEPT ![r][k].ticks = @ + 1]
        /\ UNCHANGED <<mode, ver, lines, i, sections, pc, acc, origin, iterStart, netlog>>
        /\ UNCHANGED tokVars
    /\ UNCHANGED styleVars

\* the body of fetchImageBuffer is inside try / catch
Uncaught == FALSE
CatchesErrors == TRUE

\* a rejected await inside fetchImageBuffer: the catch returns null
ThrownResult == IF CatchesErrors THEN NoResult ELSE [NoResult EXCEPT !.threw = TRUE]

\* the statuses a fetch can resolve or reject with: the fetch of a data: URL
\* has no status other than success
Responses(url) ==
    IF StartsWith(url, DataPrefix) THEN {"ok", "reject"} ELSE {"ok", "notok", "reject"}

\* await fetch(url): it rejects, or resolves with a response, ok or not
FetchResponds(r) ==
    \E k \in 1..Len(inflight[r]), resp \in {"ok", "notok", "reject"} :
        LET f == inflight[r][k]
            g == [f EXCEPT !.env.resp = resp]
        IN  /\ f.phase = "fetch"
            /\ resp \in Responses(f.url)
            /\ inflight' = [inflight EXCEPT ![r][k] =
                    IF resp = "reject"
                    THEN [g EXCEPT !.phase = "settled", !.result = ThrownResult]
                    ELSE IF resp = "notok" /\ ~StartsWith(f.url, DataPrefix)
                    THEN [g EXCEPT !.phase = "settled", !.result = NoResult]
                    ELSE [g EXCEPT !.phase = "blob"]]
            /\ UNCHANGED <<mode, ver, lines, i, sections, pc, acc, origin, iterStart, netlog>>
            /\ UNCHANGED tokVars
    /\ UNCHANGED styleVars

\* await response.blob() and blob.arrayBuffer(): the bytes, or a decode error
BlobRead(r) ==
    \E k \in 1..Len(inflight[r]), b \in {"ok", "reject"} :
        LET f == inflight[r][k]
            g == [f EXCEPT !.env.blob = b]
        IN  /\ f.phase = "blob"
            /\ inflight' = [inflight EXCEPT ![r][k] =
                    IF b = "reject"
                    THEN [g EXCEPT !.phase = "settled", !.result = ThrownResult]
                    ELSE [g EXCEPT !.phase = "probe"]]
            /\ UNCHANGED <<mode, ver, lines, i, sections, pc, acc, origin, iterStart, netlog>>
            /\ UNCHANGED tokVars
    /\ UNCHANGED styleVars

\* the Image probe: onload with the natural size, or onerror
ProbeLoads(r) ==
    \E k \in 1..Len(inflight[r]), d \in NaturalDims :
        LET f == inflight[r][k]
        IN  /\ f.phase = "probe"
            /\ inflight' = [inflight EXCEPT ![r][k] =
                    [f EXCEPT !.phase = "settled",
                              !.env.probe = "load",
                              !.env.width = d[1],
                              !.env.height = d[2],
                              !.result = [ok |-> TRUE, width |-> d[1], height |-> d[2],
                                          threw |-> FALSE]]]
            /\ UNCHANGED <<mode, ver, lines, i, sections, pc, acc, origin, iterStart, netlog>>
            /\ UNCHANGED tokVars
    /\ UNCHANGED styleVars

\* a probe whose failure makes fetchImageBuffer return null
ProbeFailsToNull(r) ==
    \E k \in 1..Len(inflight[r]) :
        LET f == inflight[r][k]
        IN  /\ f.phase = "probe"
            /\ inflight' = [inflight EXCEPT ![r][k] =
                    [f EXCEPT !.phase = "settled",
                              !.env.probe = "error",
                              !.result = NoResult]]
            /\ UNCHANGED <<mode, ver, lines, i, sections, pc, acc, origin, iterStart, netlog>>
            /\ UNCHANGED tokVars
    /\ UNCHANGED styleVars

ProbeFails(r) ==
    \E k \in 1..Len(inflight[r]) :
        LET f == inflight[r][k]
        IN  /\ f.phase = "probe"
            /\ inflight' = [inflight EXCEPT ![r][k] =
                    [f EXCEPT !.phase = "settled",
                              !.env.probe = "error",
                              !.result = [ok     |-> TRUE,
                                          width  |-> FallbackWidth,
                                          height |-> FallbackHeight,
                                          threw  |-> FALSE]]]
            /\ UNCHANGED <<mode, ver, lines, i, sections, pc, acc, origin, iterStart, netlog>>
            /\ UNCHANGED tokVars
    /\ UNCHANGED styleVars

RemoveAt(q, k) == SubSeq(q, 1, k - 1) \o SubSeq(q, k + 1, Len(q))

\* the block the scan pushes for an image line once fetchImageBuffer returned
ResolvedBlock(f) ==
    IF f.result.ok THEN ImageBlock(f.alt, f.result) ELSE FailedBlock(f.alt)

\* the await returns: the block is pushed and the loop goes on; an exception
\* out of fetchImageBuffer would leave downloadDocx at the await
ImageResume(r) ==
    \E k \in 1..Len(inflight[r]) :
        LET f == inflight[r][k]
        IN  /\ pc[r] = "await"
            /\ f.line = i[r]
            /\ f.phase = "settled"
            /\ IF f.result.threw
               THEN /\ pc' = [pc EXCEPT ![r] = "aborted"]
                    /\ UNCHANGED <<sections, origin, i>>
               ELSE /\ Push(r, ResolvedBlock(f), i[r])
                    /\ Advance(r)
                    /\ pc' = [pc EXCEPT ![r] = "loop"]
            /\ inflight' = [inflight EXCEPT ![r] = RemoveAt(@, k)]
            /\ netlog' = [netlog EXCEPT ![r] =
                    Append(@, [env |-> f.env, result |-> f.result, ticks |-> f.ticks])]
            /\ UNCHANGED <<mode, ver, lines, acc, iterStart>>
            /\ UNCHANGED tokVars
    /\ UNCHANGED styleVars

(***************************************************************************)
(* Code fence.                                                             *)
(***************************************************************************)
CodeOpen(r) ==
    /\ AtLine(r, "code")
    /\ acc' = [acc EXCEPT ![r] = <<>>]
    /\ Advance(r)
    /\ pc' = [pc EXCEPT ![r] = "code"]
    /\ BeginIteration(r)
    /\ UNCHANGED <<mode, ver, lines, sections, origin, inflight, netlog>>
    /\ UNCHANGED tokVars
    /\ UNCHANGED styleVars

InFence(r) ==
    /\ i[r] < Len(lines[r])
    /\ ~StartsWith(Trim(lines[r][i[r] + 1]), Fence)

\* a fence whose lines are trimmed when they are accumulated
CodeLineTrimmed(r) ==
    /\ pc[r] = "code"
    /\ InFence(r)
    /\ acc' = [acc EXCEPT ![r] = Append(@, Trim(lines[r][i[r] + 1]))]
    /\ Advance(r)
    /\ UNCHANGED <<mode, ver, lines, sections, origin, pc, inflight, iterStart, netlog>>
    /\ UNCHANGED tokVars
    /\ UNCHANGED styleVars

CodeLine(r) ==
    /\ pc[r] = "code"
    /\ InFence(r)
    /\ acc' = [acc EXCEPT ![r] = Append(@, lines[r][i[r] + 1])]
    /\ Advance(r)
    /\ UNCHANGED <<mode, ver, lines, sections, origin, pc, inflight, iterStart, netlog>>
    /\ UNCHANGED tokVars
    /\ UNCHANGED styleVars

\* a scanner that pushes the code block only at a closing fence
CodeCloseAtFenceOnly(r) ==
    /\ pc[r] = "code"
    /\ ~InFence(r)
    /\ Advance(r)
    /\ IF i[r] < Len(lines[r])
       THEN Push(r, CodeBlock(acc[r]), IterLine(r))
       ELSE UNCHANGED <<sections, origin>>
    /\ acc' = [acc EXCEPT ![r] = <<>>]
    /\ pc' = [pc EXCEPT ![r] = "loop"]
    /\ UNCHANGED <<mode, ver, lines, inflight, iterStart, netlog>>
    /\ UNCHANGED tokVars
    /\ UNCHANGED styleVars

CodeClose(r) ==
    /\ pc[r] = "code"
    /\ ~InFence(r)
    /\ Advance(r)
    /\ Push(r, CodeBlock(acc[r]), IterLine(r))
    /\ acc' = [acc EXCEPT ![r] = <<>>]
    /\ pc' = [pc EXCEPT ![r] = "loop"]
    /\ UNCHANGED <<mode, ver, lines, inflight, iterStart, netlog>>
    /\ UNCHANGED tokVars
    /\ UNCHANGED styleVars

(***************************************************************************)
(* Table.                                                                  *)
(***************************************************************************)
TableOpen(r) ==
    /\ AtLine(r, "table")
    /\ acc' = [acc EXCEPT ![r] = <<>>]
    /\ pc' = [pc EXCEPT ![r] = "table"]
    /\ BeginIteration(r)
    /\ UNCHANGED <<mode, ver, lines, i, sections, origin, inflight, netlog>>
    /\ UNCHANGED tokVars
    /\ UNCHANGED styleVars

\* a table loop that takes the first line of the run only
InTableOnce(r) ==
    /\ i[r] < Len(lines[r])
    /\ i[r] = IterLine(r)
    /\ StartsWith(Trim(lines[r][i[r] + 1]), <<"|">>)

InTable(r) ==
    /\ i[r] < Len(lines[r])
    /\ StartsWith(Trim(lines[r][i[r] + 1]), <<"|">>)

\* what one pipe line adds to the accumulator: the trimmed line (later
\* version), or its cells unless it is a separator or has no cell (earlier)
TableAccumulate(v, sofar, rawRow) ==
    IF v = 2 THEN Append(sofar, rawRow)
    ELSE IF ~IsSeparatorRowV1(rawRow) /\ RowCellsV1(rawRow) # <<>>
         THEN Append(sofar, RowCellsV1(rawRow))
         ELSE sofar

TableLine(r) ==
    /\ pc[r] = "table"
    /\ InTable(r)
    /\ acc' = [acc EXCEPT ![r] = TableAccumulate(ver, @, Trim(lines[r][i[r] + 1]))]
    /\ Advance(r)
    /\ UNCHANGED <<mode, ver, lines, sections, origin, pc, inflight, iterStart, netlog>>
    /\ UNCHANGED tokVars
    /\ UNCHANGED styleVars

\* the rows of the table to emit
TableRows(v, sofar) == IF v = 2 THEN SurvivingRows(sofar) ELSE sofar

\* whether a table is pushed: always (earlier), if rows.length > 0 (later)
TableAlwaysEmitted(v, rows) == TRUE
TableEmitted(v, rows) == v = 1 \/ rows # <<>>

\* a table that takes the line that ends its run with it
TableCloseConsuming(r) ==
    /\ pc[r] = "table"
    /\ ~InTable(r)
    /\ IF TableEmitted(ver, TableRows(ver, acc[r]))
       THEN Push(r, TableBlock(ver, TableRows(ver, acc[r])), IterLine(r))
       ELSE UNCHANGED <<sections, origin>>
    /\ acc' = [acc EXCEPT ![r] = <<>>]
    /\ pc' = [pc EXCEPT ![r] = "loop"]
    /\ i' = [i EXCEPT ![r] = IF @ < Len(lines[r]) THEN @ + 1 ELSE @]
    /\ UNCHANGED <<mode, ver, lines, inflight, iterStart, netlog>>
    /\ UNCHANGED tokVars
    /\ UNCHANGED styleVars

TableClose(r) ==
    /\ pc[r] = "table"
    /\ ~InTable(r)
    /\ IF TableEmitted(ver, TableRows(ver, acc[r]))
       THEN Push(r, TableBlock(ver, TableRows(ver, acc[r])), IterLine(r))
       ELSE UNCHANGED <<sections, origin>>
    /\ acc' = [acc EXCEPT ![r] = <<>>]
    /\ pc' = [pc EXCEPT ![r] = "loop"]
    /\ UNCHANGED <<mode, ver, lines, i, inflight, iterStart, netlog>>
    /\ UNCHANGED tokVars
    /\ UNCHANGED styleVars

(***************************************************************************)
(* Block math and block quote: the earlier version only.                   *)
(***************************************************************************)
MathSingle(r) ==
    /\ AtLine(r, "math")
    /\ RemoveDollarPairs(Cur(r)) # <<>>
    /\ Push(r, MathBlock(RemoveDollarPairs(Cur(r))), i[r])
    /\ Advance(r)
    /\ BeginIteration(r)
    /\ UNCHANGED <<mode, ver, lines, pc, acc, inflight, netlog>>
    /\ UNCHANGED tokVars
    /\ UNCHANGED styleVars

MathOpen(r) ==
    /\ AtLine(r, "math")
    /\ RemoveDollarPairs(Cur(r)) = <<>>
    /\ acc' = [acc EXCEPT ![r] = <<>>]
    /\ Advance(r)
    /\ pc' = [pc EXCEPT ![r] = "math"]
    /\ BeginIteration(r)
    /\ UNCHANGED <<mode, ver, lines, sections, origin, inflight, netlog>>
    /\ UNCHANGED tokVars
    /\ UNCHANGED styleVars

InMath(r) ==
    /\ i[r] < Len(lines[r])
    /\ ~StartsWith(Trim(lines[r][i[r] + 1]), <<"$", "$">>)

MathLine(r) ==
    /\ pc[r] = "math"
    /\ InMath(r)
    /\ acc' = [acc EXCEPT ![r] = @ \o lines[r][i[r] + 1] \o <<" ">>]
    /\ Advance(r)
    /\ UNCHANGED <<mode, ver, lines, sections, origin, pc, inflight, iterStart, netlog>>
    /\ UNCHANGED tokVars
    /\ UNCHANGED styleVars

\* a scanner that pushes the formula only at a closing line
MathCloseAtDelimiterOnly(r) ==
    /\ pc[r] = "math"
    /\ ~InMath(r)
    /\ IF i[r] < Len(lines[r])
       THEN Push(r, MathBlock(acc[r]), IterLine(r))
       ELSE UNCHANGED <<sections, origin>>
    /\ Advance(r)
    /\ acc' = [acc EXCEPT ![r] = <<>>]
    /\ pc' = [pc EXCEPT ![r] = "loop"]
    /\ UNCHANGED <<mode, ver, lines, inflight, iterStart, netlog>>
    /\ UNCHANGED tokVars
    /\ UNCHANGED styleVars

MathClose(r) ==
    /\ pc[r] = "math"
    /\ ~InMath(r)
    /\ Push(r, MathBlock(acc[r]), IterLine(r))
    /\ Advance(r)
    /\ acc' = [acc EXCEPT ![r] = <<>>]
    /\ pc' = [pc EXCEPT ![r] = "loop"]
    /\ UNCHANGED <<mode, ver, lines, inflight, iterStart, netlog>>
    /\ UNCHANGED tokVars
    /\ UNCHANGED styleVars

Quote(r) ==
    /\ AtLine(r, "quote")
    /\ Push(r, QuoteBlock(ver, Cur(r)), i[r])
    /\ Advance(r)
    /\ BeginIteration(r)
    /\ UNCHANGED <<mode, ver, lines, pc, acc, inflight, netlog>>
    /\ UNCHANGED tokVars
    /\ UNCHANGED styleVars

(***************************************************************************)
(* Paragraph or blank line, and the end of the loop.                       *)
(***************************************************************************)
\* how far the last branch of the chain moves the index
ParagraphStays == 1 - 1
ParagraphStep == 1

\* a last branch that pushes a paragraph for a blank line too
ParagraphForBlank(r) ==
    /\ AtLine(r, "para")
    /\ Push(r, ParagraphBlock(ver, Cur(r)), i[r])
    /\ i' = [i EXCEPT ![r] = @ + ParagraphStep]
    /\ BeginIteration(r)
    /\ UNCHANGED <<mode, ver, lines, pc, acc, inflight, netlog>>
    /\ UNCHANGED tokVars
    /\ UNCHANGED styleVars

Paragraph(r) ==
    /\ AtLine(r, "para")
    /\ IF Cur(r) # <<>>
       THEN Push(r, ParagraphBlock(ver, Cur(r)), i[r])
       ELSE UNCHANGED <<sections, origin>>
    /\ i' = [i EXCEPT ![r] = @ + ParagraphStep]
    /\ BeginIteration(r)
    /\ UNCHANGED <<mode, ver, lines, pc, acc, inflight, netlog>>
    /\ UNCHANGED tokVars
    /\ UNCHANGED styleVars

\* the loop condition fails: the document is built from sections
Finish(r) ==
    /\ pc[r] = "loop"
    /\ i[r] >= Len(lines[r])
    /\ pc' = [pc EXCEPT ![r] = "done"]
    /\ UNCHANGED <<mode, ver, lines, i, sections, acc, inflight, origin, iterStart, netlog>>
    /\ UNCHANGED tokVars
    /\ UNCHANGED styleVars

Step(r) ==
    \/ Heading(r)
    \/ ImageStart(r)
    \/ NetDelay(r)
    \/ FetchResponds(r)
    \/ BlobRead(r)
    \/ ProbeLoads(r)
    \/ ProbeFails(r)
    \/ ImageResume(r)
    \/ CodeOpen(r)
    \/ CodeLine(r)
    \/ CodeClose(r)
    \/ TableOpen(r)
    \/ TableLine(r)
    \/ TableClose(r)
    \/ MathSingle(r)
    \/ MathOpen(r)
    \/ MathLine(r)
    \/ MathClose(r)
    \/ Quote(r)
    \/ Paragraph(r)
    \/ Finish(r)

(***************************************************************************)
(* The markups the runs are given.                                         *)
(***************************************************************************)
LineHeading == <<"#", " ", "T">>
LineHeading3 == <<"#", "#", "#", "T">>
LineHeading4 == <<"#", "#", "#", "#", " ", "|">>
LineImage == <<"!", "[", "a", "]", "(", "u", ")">>
LineImageData ==
    <<"!", "[", "b", "]", "(">> \o DataPrefix \o <<")">>
LineFence == Fence
LineRow == <<"|", " ", "a", " ", "|", " ", "b", " ", "|">>
LineSeparator == <<"|", "-", "-", "-", "|", "-", "-", "-", "|">>
LineShortRow == <<"|", " ", "1", " ", "|">>
LineAlign == <<"|", ":", "-", "|", "-", ":", "|">>
LineMathDelim == <<"$", "$">>
LineMathSingle == <<"$", "$", "x", "$", "$">>
LineQuote == <<">", " ", "q">>
LineBlank == <<>>
LinePara == <<"a", " ", "*", "*", "b", "*", "*">>
LineIndented == <<" ", " ", "x", " ">>

LineVocab ==
    {LineHeading, LineHeading3, LineHeading4, LineImage, LineImageData, LineFence,
     LineRow, LineSeparator, LineShortRow, LineAlign, LineMathDelim, LineMathSingle,
     LineQuote, LineBlank, LinePara, LineIndented}

PairVocab ==
    {LineHeading, LineImage, LineFence, LineRow, LineMathDelim, LineMathSingle,
     LineQuote, LinePara}

\* the markup "# Title\n\nHello **world**", split
ScenarioMarkup ==
    << <<"#", " ", "T", "i", "t", "l", "e">>,
       <<>>,
       <<"H", "e", "l", "l", "o", " ", "*", "*", "w", "o", "r", "l", "d", "*", "*">> >>

\* a fence around an image line and an indented line, and a heading after it
FenceMarkup == <<LineFence, LineImage, LineIndented, LineFence, LineHeading>>

\* the results of markdown.split: one line at least
RECURSIVE MarkupsOf(_, _)
MarkupsOf(vocab, n) ==
    IF n = 1 THEN {<<l>> : l \in vocab}
    ELSE LET S == MarkupsOf(vocab, n - 1)
         IN  S \cup {Append(m, l) : m \in {u \in S : Len(u) = n - 1}, l \in vocab}

TokIdle ==
    /\ text = <<>>
    /\ runs = <<>>
    /\ called = "none"
    /\ StyleIdle

\* the markups a caller may pass: for one run alone, any markup of up to
\* MaxLines lines; for a pair, the first call gets any markup of up to
\* MaxPairLines lines and the second the same markup or a one-line markup
Markups(r) ==
    IF mode = "pair"
    THEN IF r = 1 THEN MarkupsOf(PairVocab, MaxPairLines)
                  ELSE {lines[1]} \cup MarkupsOf(PairVocab, 1)
    ELSE MarkupsOf(LineVocab, MaxLines) \cup {ScenarioMarkup, FenceMarkup}

\* downloadDocx(markdown, template) is called: the locals are set up.  The
\* runs are numbered in the order of their calls.
Call(r) ==
    /\ pc[r] = "idle"
    /\ \A q \in Runs : q < r => pc[q] # "idle"
    /\ \E m \in Markups(r) : lines' = [lines EXCEPT ![r] = m]
    /\ i' = [i EXCEPT ![r] = 0]
    /\ sections' = [sections EXCEPT ![r] = <<>>]
    /\ pc' = [pc EXCEPT ![r] = "loop"]
    /\ UNCHANGED <<mode, ver, acc, inflight, origin, iterStart, netlog>>
    /\ UNCHANGED tokVars
    /\ UNCHANGED styleVars

Next == \E r \in Runs : Call(r) \/ Step(r)

ScanInit(m) ==
    /\ mode = m
    /\ ver \in {1, 2}
    /\ lines = [r \in Runs |-> <<>>]
    /\ i = [r \in Runs |-> 0]
    /\ sections = [r \in Runs |-> <<>>]
    /\ pc = [r \in Runs |-> IF m = "pair" \/ (m = "single" /\ r = 1) THEN "idle" ELSE "off"]
    /\ acc = [r \in Runs |-> <<>>]
    /\ inflight = [r \in Runs |-> <<>>]
    /\ origin = [r \in Runs |-> <<>>]
    /\ iterStart = [r \in Runs |-> <<>>]
    /\ netlog = [r \in Runs |-> <<>>]

Init == TokIdle /\ ScanInit("single")

InitPair == TokIdle /\ ScanInit("pair")

Spec == Init /\ [][Next]_vars

SpecPair == InitPair /\ [][Next]_vars

(***************************************************************************)
(* C1.  The scan of downloadDocx terminates, in both versions: every       *)
(* iteration of the scan loop leaves the line index beyond the line it     *)
(* began at, so there are no more iterations than lines; and every step of *)
(* a run, the steps of a pending fetch included, lowers a rank that is     *)
(* bounded below, so no run goes on for ever, also when a fence, block     *)
(* math or table is left unterminated.                                     *)
(***************************************************************************)
IterationAdvances ==
    \A r \in Runs :
        /\ Len(iterStart[r]) <= Len(lines[r])
        /\ \A n \in 1..Len(iterStart[r]) :
              /\ n > 1 => iterStart[r][n] > iterStart[r][n - 1]
              /\ iterStart[r][n] < Len(lines[r])
        /\ (pc[r] \in {"loop", "done"} /\ iterStart[r] # <<>>) => i[r] > IterLine(r)

PhaseRank(ph) ==
    IF ph = "fetch" THEN 3 ELSE IF ph = "blob" THEN 2 ELSE IF ph = "probe" THEN 1 ELSE 0

\* what is left of the fetches in flight
AwaitRank(r) ==
    IF inflight[r] = <<>> THEN 0
    ELSE PhaseRank(inflight[r][1].phase) * (MaxDelay + 1)
            + (MaxDelay - inflight[r][1].ticks)

LoopRank == 4 * MaxDelay + 4

\* what is left of the work at the current line
LineRank(r) ==
    IF pc[r] = "loop" THEN LoopRank
    ELSE IF pc[r] = "table" /\ ~InTable(r) THEN LoopRank + 1
    ELSE IF pc[r] = "await" THEN AwaitRank(r)
    ELSE 0

Rank(r) ==
    IF pc[r] \in {"done", "off", "idle", "aborted"} THEN 0
    ELSE (Len(lines[r]) + 1 - i[r]) * (LoopRank + 2) + LineRank(r)

RankDecreases ==
    \A r \in Runs :
        \/ UNCHANGED <<lines[r], i[r], sections[r], pc[r], acc[r], inflight[r]>>
        \/ pc[r] = "idle"
        \/ /\ Rank(r)' < Rank(r)
           /\ Rank(r)' >= 0
           /\ Len(inflight[r]') <= 1

C1_ScanTerminates == []IterationAdvances /\ [][RankDecreases]_vars

\* a run that ended inside an unterminated fence or block math
C1_Witness ==
    /\ pc[1] = "done"
    /\ i[1] = Len(lines[1]) + 1
    /\ Len(iterStart[1]) >= 2

(***************************************************************************)
(* C2.  Within one run image resolutions happen in document order and      *)
(* never overlap: at most one fetch is in flight, it is the one for the    *)
(* line the scan is suspended at, every earlier image line has been        *)
(* resolved before it started, and while it is in flight the scan          *)
(* classifies no line and pushes no block.                                 *)
(***************************************************************************)
ImageIterations(r, before) ==
    {n \in 1..Len(iterStart[r]) :
        /\ iterStart[r][n] < before
        /\ Classify(ver, Trim(lines[r][iterStart[r][n] + 1])) = "image"}

OneFetchAtATime ==
    \A r \in Runs :
        /\ Len(inflight[r]) <= 1
        /\ inflight[r] # <<>> =>
              /\ pc[r] = "await"
              /\ inflight[r][1].line = i[r]
              /\ IterLine(r) = i[r]
              /\ \A n \in 1..Len(origin[r]) : origin[r][n] < i[r]
              /\ Len(netlog[r]) = Cardinality(ImageIterations(r, i[r]))

SuspendedWhilePending ==
    \A r \in Runs :
        inflight[r] # <<>> /\ inflight[r][1].phase # "settled"
            => /\ i'[r] = i[r]
               /\ sections'[r] = sections[r]
               /\ pc'[r] = pc[r]
               /\ iterStart'[r] = iterStart[r]

C2_ResolutionsInOrder == []OneFetchAtATime /\ [][SuspendedWhilePending]_vars

\* the fetch of a second image line is under way, the first one resolved
C2_Witness ==
    /\ Len(netlog[1]) >= 1
    /\ inflight[1] # <<>>
    /\ inflight[1][1].ticks >= 1
    /\ inflight[1][1].phase = "blob"

(***************************************************************************)
(* C3.  The blocks of a run do not depend on network timing: two runs of   *)
(* the same version on the same markup whose fetches return the same       *)
(* results, after whatever delays and however their steps interleave, end  *)
(* with the same sequence of blocks.                                       *)
(***************************************************************************)
ResultsOf(log) == [n \in 1..Len(log) |-> log[n].result]

TicksOf(log) == [n \in 1..Len(log) |-> log[n].ticks]

C3_TimingIndependent ==
    (/\ pc[1] = "done"
     /\ pc[2] = "done"
     /\ lines[1] = lines[2]
     /\ ResultsOf(netlog[1]) = ResultsOf(netlog[2]))
        => sections[1] = sections[2]

\* two finished runs on one markup with an image, same results, other delays
C3_Witness ==
    /\ pc[1] = "done"
    /\ pc[2] = "done"
    /\ lines[1] = lines[2]
    /\ netlog[1] # <<>>
    /\ ResultsOf(netlog[1]) = ResultsOf(netlog[2])
    /\ TicksOf(netlog[1]) # TicksOf(netlog[2])
    /\ Len(sections[1]) = 2
    /\ sections[1] = sections[2]

(***************************************************************************)
(* The iterations of a run, read off its history: iteration n began at     *)
(* line iterStart[n] and consumed the lines up to the next iteration.      *)
(***************************************************************************)
IterEnd(r, n) ==
    IF n < Len(iterStart[r]) THEN iterStart[r][n + 1] - 1 ELSE Len(lines[r]) - 1

IterKind(r, n) == Classify(ver, Trim(lines[r][iterStart[r][n] + 1]))

IterBlank(r, n) == Trim(lines[r][iterStart[r][n] + 1]) = <<>>

\* the blocks that came from line l
BlocksFrom(r, l) == {k \in 1..Len(origin[r]) : origin[r][k] = l}

\* later version: a pipe run all of whose lines are rows of dashes
AllSeparatorRun(r, n) ==
    /\ ver = 2
    /\ IterKind(r, n) = "table"
    /\ \A l \in iterStart[r][n]..IterEnd(r, n) :
          IsSeparatorRow(RowCells(Trim(lines[r][l + 1])))

OriginsInOrder(r) ==
    /\ Len(origin[r]) = Len(sections[r])
    /\ \A k \in 1..Len(origin[r]) :
          /\ k > 1 => origin[r][k] > origin[r][k - 1]
          /\ \E n \in 1..Len(iterStart[r]) : iterStart[r][n] = origin[r][k]

\* the lines after the first of an iteration are continuation lines: only a
\* code fence, a table or block math has any
ContinuationsOwned(r) ==
    \A n \in 1..Len(iterStart[r]) :
        IterEnd(r, n) > iterStart[r][n] => IterKind(r, n) \in {"code", "table", "math"}

(***************************************************************************)
(* C4 as claimed.  Blocks are appended in the order of the lines that      *)
(* originate them, and every non-blank line originates exactly one block   *)
(* or is a continuation line of a code, table or math block: every         *)
(* iteration that begins at a non-blank line pushes exactly one block.     *)
(***************************************************************************)
C4_NoBlockDropped ==
    \A r \in Runs :
        pc[r] = "done" =>
            /\ OriginsInOrder(r)
            /\ ContinuationsOwned(r)
            /\ \A n \in 1..Len(iterStart[r]) :
                  Cardinality(BlocksFrom(r, iterStart[r][n]))
                      = IF IterBlank(r, n) THEN 0 ELSE 1

(***************************************************************************)
(* C4 as amended.  The same, except that in the later version a pipe run   *)
(* all of whose lines are separator rows (every cell dashes) pushes no     *)
(* block.                                                                  *)
(***************************************************************************)
C4_OrderPreserved ==
    \A r \in Runs :
        pc[r] = "done" =>
            /\ OriginsInOrder(r)
            /\ ContinuationsOwned(r)
            /\ \A n \in 1..Len(iterStart[r]) :
                  Cardinality(BlocksFrom(r, iterStart[r][n]))
                      = IF IterBlank(r, n) \/ AllSeparatorRun(r, n) THEN 0 ELSE 1

\* a finished run of the later version: a separator-only pipe run between
\* two lines that each gave a block
C4_Witness ==
    /\ pc[1] = "done"
    /\ ver = 2
    /\ Len(iterStart[1]) = 3
    /\ AllSeparatorRun(1, 2)
    /\ origin[1] = <<0, 2>>

(***************************************************************************)
(* C5.  A failed image resolution (the fetch rejects, a remote response is *)
(* not ok, or reading the bytes rejects) makes fetchImageBuffer return     *)
(* null, not throw: the run is never aborted, the image line gives exactly *)
(* one placeholder block with the alt text of the line in it, at the       *)
(* line's position, and the scan goes on with the next line.               *)
(***************************************************************************)
EnvFailed(e, url) ==
    \/ e.resp = "reject"
    \/ e.resp = "notok" /\ ~StartsWith(url, DataPrefix)
    \/ e.blob = "reject"

\* the entry of netlog for the image line l of run r
LogIndex(r, l) == Cardinality(ImageIterations(r, l)) + 1

PlaceholderFor(r, n) ==
    LET l   == iterStart[r][n]
        im  == ImageMatch(Trim(lines[r][l + 1]))
        log == netlog[r][LogIndex(r, l)]
    IN  EnvFailed(log.env, im.url) =>
            /\ ~log.result.ok
            /\ ~log.result.threw
            /\ n < Len(iterStart[r]) => iterStart[r][n + 1] = l + 1
            /\ n = Len(iterStart[r]) => i[r] = l + 1
            /\ \E k \in 1..Len(sections[r]) :
                  /\ BlocksFrom(r, l) = {k}
                  /\ sections[r][k].kind = "ImageFailed"
                  /\ Len(sections[r][k].runs) = 1
                  /\ sections[r][k].runs[1].text = FailedText(im.alt)
                  /\ Includes(sections[r][k].runs[1].text, im.alt)
                  /\ \A j \in 1..Len(origin[r]) : j < k <=> origin[r][j] < l

C5_ImageFailurePlaceholder ==
    \A r \in Runs :
        /\ pc[r] # "aborted"
        /\ OriginsInOrder(r)
        /\ \A n \in 1..Len(iterStart[r]) :
              (IterKind(r, n) = "image" /\ LogIndex(r, iterStart[r][n]) <= Len(netlog[r]))
                  => PlaceholderFor(r, n)

\* a finished run: the bytes of its first image could not be read, and a
\* block of a later line follows the placeholder
C5_Witness ==
    /\ pc[1] = "done"
    /\ netlog[1] # <<>>
    /\ netlog[1][1].env.blob = "reject"
    /\ \E k \in 1..Len(sections[1]) :
          /\ sections[1][k].kind = "ImageFailed"
          /\ k < Len(sections[1])
          /\ origin[1][k + 1] = origin[1][k] + 1

(***************************************************************************)
(* C6.  When the input ends inside a code fence, the run emits exactly one *)
(* CodeBlock for the fence, and its lines are all the input lines after    *)
(* the opening fence line, untrimmed and in input order.                   *)
(***************************************************************************)
LastStart(r) == iterStart[r][Len(iterStart[r])]

\* the lines after line l (0-based), to the end of the input
LinesAfter(r, l) == SubSeq(lines[r], l + 2, Len(lines[r]))

\* the run is finished and its last iteration is of the given kind
EndsIn(r, kind) ==
    /\ pc[r] = "done"
    /\ iterStart[r] # <<>>
    /\ IterKind(r, Len(iterStart[r])) = kind

UnterminatedFence(r) ==
    /\ EndsIn(r, "code")
    /\ \A k \in 1..Len(LinesAfter(r, LastStart(r))) :
          ~StartsWith(Trim(LinesAfter(r, LastStart(r))[k]), Fence)

\* the only block of the last iteration, which is the last block
LastBlockIs(r, b) ==
    /\ sections[r] # <<>>
    /\ BlocksFrom(r, LastStart(r)) = {Len(sections[r])}
    /\ sections[r][Len(sections[r])] = b

C6_UnterminatedFenceFlushed ==
    \A r \in Runs :
        UnterminatedFence(r) =>
            /\ LastBlockIs(r, CodeBlock(LinesAfter(r, LastStart(r))))
            /\ Cardinality({k \in 1..Len(sections[r]) :
                                /\ sections[r][k].kind = "CodeBlock"
                                /\ origin[r][k] >= LastStart(r)}) = 1

\* a finished run of three lines: an opening fence and two lines of code, the
\* second of them indented
C6_Witness ==
    /\ UnterminatedFence(1)
    /\ LastStart(1) = 0
    /\ Len(lines[1]) = 3
    /\ lines[1][3] = LineIndented
    /\ Len(sections[1]) = 1
    /\ Len(sections[1][1].lines) = 2

(***************************************************************************)
(* C7.  End of input inside block math or inside a pipe run.               *)
(***************************************************************************)
RECURSIVE JoinSpaced(_)
JoinSpaced(ls) == IF ls = <<>> THEN <<>> ELSE Head(ls) \o <<" ">> \o JoinSpaced(Tail(ls))

UnterminatedMath(r) ==
    /\ EndsIn(r, "math")
    /\ RemoveDollarPairs(Trim(lines[r][LastStart(r) + 1])) = <<>>
    /\ \A k \in 1..Len(LinesAfter(r, LastStart(r))) :
          ~StartsWith(Trim(LinesAfter(r, LastStart(r))[k]), <<"$", "$">>)

RECURSIVE AccumulatedRows(_, _)
AccumulatedRows(v, ls) ==
    IF ls = <<>> THEN <<>>
    ELSE TableAccumulate(v, AccumulatedRows(v, SubSeq(ls, 1, Len(ls) - 1)),
                         Trim(ls[Len(ls)]))

\* the rows that the pipe run at the end of the input leaves
OpenTableRows(r) ==
    TableRows(ver, AccumulatedRows(ver, SubSeq(lines[r], LastStart(r) + 1, Len(lines[r]))))

MathFlushed(r) ==
    UnterminatedMath(r) =>
        LastBlockIs(r, MathBlock(JoinSpaced(LinesAfter(r, LastStart(r)))))

TableFlushed(r) ==
    LastBlockIs(r, TableBlock(ver, OpenTableRows(r)))

(***************************************************************************)
(* C7 as claimed.  When the input ends while block math or a table is      *)
(* being accumulated, what was accumulated is emitted as one BlockMath or  *)
(* Table block.                                                            *)
(***************************************************************************)
C7_PartialFlushed ==
    \A r \in Runs :
        /\ MathFlushed(r)
        /\ EndsIn(r, "table") => TableFlushed(r)

(***************************************************************************)
(* C7, amended.  Unterminated block math is emitted as one BlockMath; a    *)
(* pipe run that reaches the last line is emitted as one Table, except in  *)
(* the later version when no row survives the removal of the rows of       *)
(* dashes: then no block is emitted for the run.                           *)
(***************************************************************************)
C7_PartialFlushedUnlessEmpty ==
    \A r \in Runs :
        /\ MathFlushed(r)
        /\ EndsIn(r, "table") =>
              IF ver = 2 /\ OpenTableRows(r) = <<>>
              THEN BlocksFrom(r, LastStart(r)) = {}
              ELSE TableFlushed(r)

\* a finished later-version run that ends in a pipe run of a row of dashes and
\* a row of cells: the table has the one row
C7_Witness ==
    /\ EndsIn(1, "table")
    /\ ver = 2
    /\ Len(lines[1]) >= LastStart(1) + 2
    /\ IsSeparatorRow(RowCells(Trim(lines[1][LastStart(1) + 1])))
    /\ Len(OpenTableRows(1)) = 1
    /\ TableFlushed(1)

(***************************************************************************)
(* The claims about parseInlineStyles, read on the state after a call.     *)
(***************************************************************************)
\* texts without a dollar, of one character at least
MathBodies == {x \in TextsUpTo(MaxTextLen - 2) : x # <<>> /\ \A k \in 1..Len(x) : x[k] # "$"}

\* the line that is x between two dollars
Dollars(x) == <<"$">> \o x \o <<"$">>

ExampleMathRuns ==
    <<Run(<<"a", "_", "b">>, "math"),
      Run(<<" ", "i", "s", " ">>, "plain"),
      Run(<<"l", "e", "g", "a", "l">>, "italic")>>

(***************************************************************************)
(* C8 as claimed.  Math takes precedence in parseInlineStyles: a line that *)
(* is one dollar span, whatever underscores and asterisks it has inside,   *)
(* tokenizes to one math run with the expression, and the line             *)
(* $a_b$ is *legal* tokenizes to math a_b, plain " is ", italic legal.     *)
(***************************************************************************)
C8_MathPrecedence ==
    called # "none" =>
        /\ \A x \in MathBodies :
              (text = Dollars(x) /\ Trim(x) # <<>>) =>
                  /\ Len(runs) = 1
                  /\ runs[1].style = "math"
                  /\ Trim(runs[1].text) = Trim(x)
        /\ text = ExampleMath => runs = ExampleMathRuns

MathRunsOf(rs) == SelectSeq(rs, LAMBDA x : x.style = "math")

PlaceholderStem == <<"M", "A", "T", "H", "_">>

(***************************************************************************)
(* C9 as claimed.  The placeholder substitution of the later               *)
(* parseInlineStyles is reversed: the math runs of the output are, in      *)
(* order, the trimmed expressions of the spans that were replaced, one run *)
(* for each span, and no run has text of a placeholder in it.              *)
(***************************************************************************)
C9_PlaceholdersReversed ==
    called = "v2" =>
        /\ Len(MathRunsOf(runs)) = Len(MathPlaceholders(text))
        /\ \A k \in 1..Len(MathPlaceholders(text)) :
              k <= Len(MathRunsOf(runs)) =>
                  MathRunsOf(runs)[k].text = MathPlaceholders(text)[k].content
        /\ \A k \in 1..Len(runs) : ~Includes(runs[k].text, PlaceholderStem)

\* the delimiters of the claim and the style each is said to select
Delimiters ==
    { <<"*", "*", "*">>, <<"*", "*">>, <<"_", "_">>, <<"*">>, <<"_">>, <<Backtick>> }

ClaimedStyle(m) ==
    IF m = <<"*", "*", "*">> THEN "bolditalic"
    ELSE IF Len(m) = 2 THEN "bold"
    ELSE IF m = <<Backtick>> THEN "code"
    ELSE "italic"

ExampleEmphasisRuns ==
    <<Run(<<"b", "o", "l", "d">>, "bold"),
      Run(<<" ", "a", "n", "d", " ">>, "plain"),
      Run(<<"i", "t", "a", "l", "i", "c">>, "italic")>>

(***************************************************************************)
(* C10 as claimed.  The later parseInlineStyles recognizes delimiter pairs *)
(* longest first: the letter a between two copies of a delimiter is one    *)
(* run of the delimiter's style (triple: bold and italic, double: bold,    *)
(* single asterisk or underscore: italic, backtick: code), and the line    *)
(* **bold** and *italic* tokenizes to bold bold, plain " and ", italic     *)
(* italic.                                                                 *)
(***************************************************************************)
C10_LongestMatchDelimiters ==
    called = "v2" =>
        /\ \A m \in Delimiters :
              text = m \o <<"a">> \o m => runs = <<Run(<<"a">>, ClaimedStyle(m))>>
        /\ text = ExampleEmphasis => runs = ExampleEmphasisRuns

\* the characters that are no delimiter characters
IsPlainText(x) == \A k \in 1..Len(x) : x[k] \notin {"*", "_", Backtick, "$"}

PlainTexts == {x \in TextsUpTo(MaxTextLen) : IsPlainText(x)}

(***************************************************************************)
(* C11 as claimed.  A line with one delimiter only, which so has no        *)
(* closing delimiter after it (the delimiter may end the line), is         *)
(* returned by the later parseInlineStyles as one plain run with the whole *)
(* line: no character is lost and no styled run is produced.               *)
(***************************************************************************)
C11_UnmatchedDelimiterLiteral ==
    called = "v2" =>
        \A m \in Delimiters : \A x, y \in PlainTexts :
            text = x \o m \o y => runs = <<Run(text, "plain")>>

(***************************************************************************)
(* C12 as claimed.  An empty delimiter pair produces no run: no run that   *)
(* parseInlineStyles returns has an empty text.                            *)
(***************************************************************************)
C12_NoEmptyRun ==
    called = "v2" => \A k \in 1..Len(runs) : runs[k].text # <<>>

(***************************************************************************)
(* C13 as claimed.  A line with no delimiter character (asterisk,          *)
(* underscore, backtick, dollar) tokenizes to exactly one run, which has   *)
(* the line as its text and is neither bold, italic, code nor math.        *)
(***************************************************************************)
C13_PlainLineOneRun ==
    (called = "v2" /\ IsPlainText(text)) => runs = <<Run(text, "plain")>>

(***************************************************************************)
(* C13, amended.  A line with no delimiter character that is not empty     *)
(* tokenizes to exactly one plain run with the line as its text; the empty *)
(* line tokenizes to no run.                                               *)
(***************************************************************************)
C13_PlainLineOneRunUnlessEmpty ==
    (called = "v2" /\ IsPlainText(text)) =>
        IF text = <<>> THEN runs = <<>> ELSE runs = <<Run(text, "plain")>>

\* the later tokenizer was applied to a line of letters and spaces that
\* begins and ends with a space
C13_Witness ==
    /\ called = "v2"
    /\ IsPlainText(text)
    /\ Len(text) = MaxTextLen
    /\ text[1] = " "
    /\ text[Len(text)] = " "
    /\ \E k \in 1..Len(text) : text[k] = "a"
    /\ Len(runs) = 1

RECURSIVE ConcatText(_)
ConcatText(rs) == IF rs = <<>> THEN <<>> ELSE Head(rs).text \o ConcatText(Tail(rs))

\* the delimiters that parseInlineStyles recognizes when they enclose text
RecognizedDelimiters == Delimiters \ {<<"*">>}

(***************************************************************************)
(* C14 as claimed.  The texts of the runs of a line, concatenated in       *)
(* order, are the plain content of the line: a line with no delimiter      *)
(* gives itself; plain text around one recognized emphasis or code pair    *)
(* gives the text without the two delimiters; plain text around one math   *)
(* span gives the text with the span replaced by its trimmed expression.   *)
(***************************************************************************)
C14_ConcatIsPlainContent ==
    called = "v2" =>
        /\ IsPlainText(text) => ConcatText(runs) = text
        /\ \A m \in RecognizedDelimiters : \A x, y, z \in PlainTexts :
              (text = x \o m \o y \o m \o z /\ y # <<>>) => ConcatText(runs) = x \o y \o z
        /\ \A x, y, z \in PlainTexts :
              (text = x \o Dollars(y) \o z /\ Trim(y) # <<>>) =>
                  ConcatText(runs) = x \o Trim(y) \o z

TablesOf(r) == {k \in 1..Len(sections[r]) : sections[r][k].kind = "Table"}

\* the three lines | a | b |, |---|---|, | 1 |
ExampleTable == <<LineRow, LineSeparator, LineShortRow>>

(***************************************************************************)
(* C15 as claimed.  Every emitted Table is rectangular: each of its rows   *)
(* has as many cells as its longest row; and the lines | a | b |,          *)
(* |---|---|, | 1 | give one table of exactly two rows of two cells each.  *)
(***************************************************************************)
C15_TableRectangular ==
    \A r \in Runs :
        /\ \A k \in TablesOf(r) :
              \A a, b \in 1..Len(sections[r][k].rows) :
                  Len(sections[r][k].rows[a]) = Len(sections[r][k].rows[b])
        /\ (pc[r] = "done" /\ ver = 2 /\ lines[r] = ExampleTable) =>
              /\ Len(sections[r]) = 1
              /\ sections[r][1].kind = "Table"
              /\ Len(sections[r][1].rows) = 2
              /\ Len(sections[r][1].rows[1]) = 2
              /\ Len(sections[r][1].rows[2]) = 2

\* a cell of an alignment row: dashes, colons and spaces, a dash among them
IsAlignmentCell(cell) ==
    /\ \A j \in 1..Len(cell) : cell[j] \in {"-", ":", " "}
    /\ \E j \in 1..Len(cell) : cell[j] = "-"

\* the line is a GFM alignment-separator row
IsAlignmentLine(line) ==
    LET cells == SplitOn(StripBoundaryPipes(Trim(line)), "|")
    IN  \A j \in 1..Len(cells) : IsAlignmentCell(cells[j])

\* the lines of the n-th iteration of run r
IterLines(r, n) == SubSeq(lines[r], iterStart[r][n] + 1, IterEnd(r, n) + 1)

KeptLines(r, n) == SelectSeq(IterLines(r, n), LAMBDA l : ~IsAlignmentLine(l))

(***************************************************************************)
(* C16 as claimed.  Of a run of pipe lines, the alignment-separator rows   *)
(* (cells of dashes, colons and whitespace only) are discarded and every   *)
(* other row is kept: the table has one row for each other line of the     *)
(* run, and no table at all is only possible when there is no other line.  *)
(***************************************************************************)
C16_SeparatorRowsDiscarded ==
    \A r \in Runs :
        pc[r] = "done" =>
            \A n \in 1..Len(iterStart[r]) :
                IterKind(r, n) = "table" =>
                    /\ \A k \in BlocksFrom(r, iterStart[r][n]) :
                          Len(sections[r][k].rows) = Len(KeptLines(r, n))
                    /\ BlocksFrom(r, iterStart[r][n]) = {} => KeptLines(r, n) = <<>>

(***************************************************************************)
(* C17.  Image display sizing.  For a resolved image of natural size w by  *)
(* h: if w exceeds 600 the display width is 600 and the display height is  *)
(* h * 600 / w rounded to the nearest integer (a half rounds up);          *)
(* otherwise the display size is w by h.  The display width never exceeds  *)
(* 600.                                                                    *)
(***************************************************************************)
\* n is h * 600 / w rounded: 2n - 1 <= 2 * h * 600 / w < 2n + 1
IsRounded(n, w, h) ==
    /\ w * (2 * n - 1) <= 2 * h * 600
    /\ 2 * h * 600 < w * (2 * n + 1)

\* the blocks of the image lines whose resolution succeeded, with the entry
\* of netlog of each
SizedAsClaimed(r, n) ==
    LET l   == iterStart[r][n]
        res == netlog[r][LogIndex(r, l)].result
    IN  res.ok =>
            \E k \in 1..Len(sections[r]) :
                /\ BlocksFrom(r, l) = {k}
                /\ sections[r][k].kind = "Image"
                /\ sections[r][k].width <= 600
                /\ IF res.width > 600
                   THEN /\ sections[r][k].width = 600
                        /\ IsRounded(sections[r][k].height, res.width, res.height)
                   ELSE /\ sections[r][k].width = res.width
                        /\ sections[r][k].height = res.height

C17_ImageDisplaySize ==
    \A r \in Runs :
        \A n \in 1..Len(iterStart[r]) :
            (IterKind(r, n) = "image" /\ LogIndex(r, iterStart[r][n]) <= Len(netlog[r]))
                => SizedAsClaimed(r, n)

\* a finished run with an image of natural size 1200 by 899, displayed as 600
\* by 450, and an image of natural size 300 by 200, displayed as it is
C17_Witness ==
    /\ pc[1] = "done"
    /\ \E k \in 1..Len(sections[1]) :
          /\ sections[1][k].kind = "Image"
          /\ sections[1][k].width = 600
          /\ sections[1][k].height = 450
          /\ netlog[1][LogIndex(1, origin[1][k])].result.height = 899
    /\ \E k \in 1..Len(sections[1]) :
          /\ sections[1][k].kind = "Image"
          /\ sections[1][k].width = 300
          /\ sections[1][k].height = 200

(***************************************************************************)
(* C18.  When the bytes of an image were read and the probe of its natural *)
(* size fails, fetchImageBuffer returns an image of the fallback size 600  *)
(* by 400, not null, for a data: reference and for a remote URL alike, and *)
(* the scan pushes an Image block of that size, not the failure            *)
(* placeholder.                                                            *)
(***************************************************************************)
ProbeFailureResolved(r, n) ==
    LET l   == iterStart[r][n]
        log == netlog[r][LogIndex(r, l)]
    IN  log.env.probe = "error" =>
            /\ log.env.blob = "ok"
            /\ log.result.ok
            /\ ~log.result.threw
            /\ log.result.width = 600
            /\ log.result.height = 400
            /\ \E k \in 1..Len(sections[r]) :
                  /\ BlocksFrom(r, l) = {k}
                  /\ sections[r][k].kind = "Image"
                  /\ sections[r][k].width = 600
                  /\ sections[r][k].height = 400

C18_ProbeFailureFallback ==
    \A r \in Runs :
        \A n \in 1..Len(iterStart[r]) :
            (IterKind(r, n) = "image" /\ LogIndex(r, iterStart[r][n]) <= Len(netlog[r]))
                => ProbeFailureResolved(r, n)

\* a finished run with a data: image and a remote image, the probe of both
\* failed: two Image blocks
C18_Witness ==
    /\ pc[1] = "done"
    /\ Len(netlog[1]) = 2
    /\ netlog[1][1].env.probe = "error"
    /\ netlog[1][2].env.probe = "error"
    /\ \E a, b \in 1..Len(lines[1]) :
          /\ Trim(lines[1][a]) = LineImageData
          /\ Trim(lines[1][b]) = LineImage
    /\ Cardinality({k \in 1..Len(sections[1]) : sections[1][k].kind = "Image"}) = 2

\* the first line at or after k (1-based) for which P holds, or one past the end
FirstFrom(ls, k, P(_)) ==
    LET S == {j \in k..Len(ls) : P(Trim(ls[j]))}
    IN  IF S = {} THEN Len(ls) + 1 ELSE MinOf(S)

IsFenceLine(line) == StartsWith(line, Fence)

IsNoPipeLine(line) == ~StartsWith(line, <<"|">>)

IsMathDelimLine(line) == StartsWith(line, <<"$", "$">>)

\* the logical blocks of the lines from line k (1-based) on: one for a heading
\* line, an image line, a code fence with its lines, a maximal run of pipe
\* lines, a block-math construct, a quote line and any other non-blank line
RECURSIVE LogicalBlocksFrom(_, _, _)
LogicalBlocksFrom(v, ls, k) ==
    IF k > Len(ls) THEN 0
    ELSE LET line == Trim(ls[k])
             kind == Classify(v, line)
         IN  IF kind = "code"
             THEN 1 + LogicalBlocksFrom(v, ls, FirstFrom(ls, k + 1, IsFenceLine) + 1)
             ELSE IF kind = "table"
             THEN 1 + LogicalBlocksFrom(v, ls, FirstFrom(ls, k, IsNoPipeLine))
             ELSE IF kind = "math" /\ RemoveDollarPairs(line) = <<>>
             THEN 1 + LogicalBlocksFrom(v, ls, FirstFrom(ls, k + 1, IsMathDelimLine) + 1)
             ELSE IF line = <<>>
             THEN LogicalBlocksFrom(v, ls, k + 1)
             ELSE 1 + LogicalBlocksFrom(v, ls, k + 1)

LogicalBlocks(r) == LogicalBlocksFrom(ver, lines[r], 1)

\* later version: the pipe runs of the run r that have rows of dashes only
SeparatorOnlyRuns(r) == {n \in 1..Len(iterStart[r]) : AllSeparatorRun(r, n)}

ScenarioBlocks ==
    << [Block("Heading") EXCEPT
            !.level      = 1,
            !.runs       = <<Run(<<"T", "i", "t", "l", "e">>, "plain")>>,
            !.heading    = "HEADING_1",
            !.align      = "center",
            !.sizeOffset = 6],
       [Block("Paragraph") EXCEPT
            !.runs  = <<Run(<<"H", "e", "l", "l", "o", " ">>, "plain"),
                        Run(<<"w", "o", "r", "l", "d">>, "bold")>>] >>

C20_TitleHelloScenario ==
    \A r \in Runs :
        (pc[r] = "done" /\ lines[r] = ScenarioMarkup) => sections[r] = ScenarioBlocks

\* the later version has finished the conversion of the scenario markup
C20_Witness ==
    /\ pc[1] = "done"
    /\ ver = 2
    /\ lines[1] = ScenarioMarkup
    /\ Len(sections[1]) = 2
    /\ origin[1] = <<0, 2>>

(***************************************************************************)
(* The blocks a call of downloadDocx emits when it runs alone: the         *)
(* conversion as a function of the version, the lines and the results of   *)
(* the image resolutions in document order.                                *)
(***************************************************************************)
RECURSIVE AloneFrom(_, _, _, _)
AloneFrom(v, ls, k, res) ==
    IF k > Len(ls) THEN <<>>
    ELSE
        LET line == Trim(ls[k])
            kind == Classify(v, line)
        IN  IF kind = "heading"
            THEN <<HeadingBlock(v, line)>> \o AloneFrom(v, ls, k + 1, res)
            ELSE IF kind = "image"
            THEN IF res = <<>> THEN <<>>
                 ELSE <<IF Head(res).ok
                        THEN ImageBlock(ImageMatch(line).alt, Head(res))
                        ELSE FailedBlock(ImageMatch(line).alt)>>
                      \o AloneFrom(v, ls, k + 1, Tail(res))
            ELSE IF kind = "code"
            THEN LET e == FirstFrom(ls, k + 1, IsFenceLine)
                 IN  <<CodeBlock(SubSeq(ls, k + 1, e - 1))>> \o AloneFrom(v, ls, e + 1, res)
            ELSE IF kind = "table"
            THEN LET e    == FirstFrom(ls, k, IsNoPipeLine)
                     rows == TableRows(v, AccumulatedRows(v, SubSeq(ls, k, e - 1)))
                 IN  (IF v = 1 \/ rows # <<>> THEN <<TableBlock(v, rows)>> ELSE <<>>)
                     \o AloneFrom(v, ls, e, res)
            ELSE IF kind = "math"
            THEN IF RemoveDollarPairs(line) # <<>>
                 THEN <<MathBlock(RemoveDollarPairs(line))>> \o AloneFrom(v, ls, k + 1, res)
                 ELSE LET e == FirstFrom(ls, k + 1, IsMathDelimLine)
                      IN  <<MathBlock(JoinSpaced(SubSeq(ls, k + 1, e - 1)))>>
                          \o AloneFrom(v, ls, e + 1, res)
            ELSE IF kind = "quote"
            THEN <<QuoteBlock(v, line)>> \o AloneFrom(v, ls, k + 1, res)
            ELSE (IF line = <<>> THEN <<>> ELSE <<ParagraphBlock(v, line)>>)
                 \o AloneFrom(v, ls, k + 1, res)

Alone(r) == AloneFrom(ver, lines[r], 1, ResultsOf(netlog[r]))

(***************************************************************************)
(* C21.  Two runs whose steps interleave at the awaits do not interfere:   *)
(* each finished run has emitted the blocks that a run alone emits on its  *)
(* markup and its image results, and no block of the other run.            *)
(***************************************************************************)
C21_RunsDoNotInterfere ==
    \A r \in Runs : pc[r] = "done" => sections[r] = Alone(r)

\* two finished runs on different markups, each with an image, whose results
\* differ: the blocks differ and each run has the blocks of its own markup
C21_Witness ==
    /\ pc[1] = "done"
    /\ pc[2] = "done"
    /\ lines[1] # lines[2]
    /\ Len(lines[1]) = 2
    /\ netlog[1] # <<>>
    /\ netlog[2] # <<>>
    /\ ResultsOf(netlog[1]) # ResultsOf(netlog[2])
    /\ Len(sections[1]) = 2
    /\ Len(sections[2]) = 1

\* the number of # at the start of the line
RECURSIVE LeadingHashes(_)
LeadingHashes(line) ==
    IF line # <<>> /\ Head(line) = "#" THEN 1 + LeadingHashes(Tail(line)) ELSE 0

\* the line after its # and the white space that follows them
RECURSIVE AfterMarker(_, _)
AfterMarker(line, c) ==
    IF line # <<>> /\ (Head(line) = c \/ (c = " " /\ IsSpace(Head(line))))
    THEN AfterMarker(Tail(line), c) ELSE line

VisualStyle(b) == <<b.heading, b.align, b.sizeOffset>>

HeadingsOf(r) == {k \in 1..Len(sections[r]) : sections[r][k].kind = "Heading"}

\* the heading block of the line at origin[k]: level and runs
HeadingOfLine(r, k) ==
    LET line == Trim(lines[r][origin[r][k] + 1])
    IN  /\ StartsWith(line, <<"#">>)
        /\ sections[r][k].level = LeadingHashes(line)
        /\ sections[r][k].runs = Tokens(ver, AfterMarker(AfterMarker(line, "#"), " "))

(***************************************************************************)
(* C22 as claimed.  A line that starts with # gives a Heading block: its   *)
(* level is the number of leading #, its runs are the tokens of the rest   *)
(* of the line; levels 1, 2 and 3 have three different visual styles       *)
(* (heading style, size, alignment) and every level beyond 3 has exactly   *)
(* the visual style of level 3.                                            *)
(***************************************************************************)
C22_HeadingLevels ==
    \A r \in Runs :
        \A a \in HeadingsOf(r) :
            /\ HeadingOfLine(r, a)
            /\ \A b \in HeadingsOf(r) :
                  LET la == sections[r][a].level
                      lb == sections[r][b].level
                  IN  /\ (la <= 3 /\ lb <= 3 /\ la # lb) =>
                              VisualStyle(sections[r][a]) # VisualStyle(sections[r][b])
                      /\ (la >= 3 /\ lb >= 3) =>
                              VisualStyle(sections[r][a]) = VisualStyle(sections[r][b])

\* the iterations of run r that begin at a line starting with $$
MathIterations(r) ==
    {n \in 1..Len(iterStart[r]) :
        StartsWith(Trim(lines[r][iterStart[r][n] + 1]), <<"$", "$">>)}

\* the block of the iteration n is one BlockMath block as the claim describes
IsOneBlockMath(r, n) ==
    LET l    == iterStart[r][n]
        line == Trim(lines[r][l + 1])
        e    == FirstFrom(lines[r], l + 2, IsMathDelimLine)
    IN  \E k \in 1..Len(sections[r]) :
            /\ BlocksFrom(r, l) = {k}
            /\ sections[r][k].kind = "BlockMath"
            /\ IF RemoveDollarPairs(line) # <<>>
               THEN /\ sections[r][k].text = Trim(RemoveDollarPairs(line))
                    /\ IterEnd(r, n) = l
               ELSE /\ sections[r][k].text = Trim(JoinSpaced(SubSeq(lines[r], l + 2, e - 1)))
                    /\ IterEnd(r, n) = (IF e <= Len(lines[r]) THEN e ELSE Len(lines[r])) - 1

(***************************************************************************)
(* C23 as claimed.  A line that starts with $$ in the default state gives  *)
(* exactly one BlockMath block: with text after the $$ on the line, a      *)
(* block of that text and of that line only; otherwise a block of the      *)
(* lines up to the next line that starts with $$, which is consumed too.   *)
(* No block of another kind comes from these lines.                        *)
(***************************************************************************)
C23_BlockMath ==
    \A r \in Runs : pc[r] = "done" => \A n \in MathIterations(r) : IsOneBlockMath(r, n)

\* the iterations of run r that begin at a line starting with >
QuoteIterations(r) ==
    {n \in 1..Len(iterStart[r]) : StartsWith(Trim(lines[r][iterStart[r][n] + 1]), <<">">>)}

(***************************************************************************)
(* C24 as claimed.  A line that starts with > in the default state gives   *)
(* one BlockQuote block, which is no Paragraph block; its runs are the     *)
(* tokens of the line without the > and the white space after it, so the   *)
(* marker is in no run of the block.                                       *)
(***************************************************************************)
C24_BlockQuote ==
    \A r \in Runs :
        pc[r] = "done" =>
            \A n \in QuoteIterations(r) :
                LET l    == iterStart[r][n]
                    line == Trim(lines[r][l + 1])
                IN  \E k \in 1..Len(sections[r]) :
                        /\ BlocksFrom(r, l) = {k}
                        /\ sections[r][k].kind = "BlockQuote"
                        /\ sections[r][k].runs = Tokens(ver, AfterMarker(Tail(line), " "))
                        /\ \A j \in 1..Len(sections[r][k].runs) :
                              ~Includes(sections[r][k].runs[j].text, <<">">>)

\* the rule of the claimed priority order that a trimmed line matches first,
\* named by the kind of block the rule emits
FirstRule(line) ==
    IF StartsWith(line, <<"#">>) THEN "Heading"
    ELSE IF ImageMatch(line).ok THEN "Image"
    ELSE IF StartsWith(line, Fence) THEN "CodeBlock"
    ELSE IF StartsWith(line, <<"|">>) THEN "Table"
    ELSE IF StartsWith(line, <<"$", "$">>) THEN "BlockMath"
    ELSE IF StartsWith(line, <<">">>) THEN "BlockQuote"
    ELSE IF line = <<>> THEN "Blank"
    ELSE "Paragraph"

\* the kinds of block a rule may emit
KindsOfRule(rule) ==
    IF rule = "Image" THEN {"Image", "ImageFailed"}
    ELSE IF rule = "Blank" THEN {}
    ELSE {rule}

\* the line that begins the iteration n was handled by the rule alone: every
\* block from it is of the rule's kind, there is one at most, and there is
\* one unless the line is blank or begins a table
HandledByFirstRule(r, n) ==
    LET l    == iterStart[r][n]
        rule == FirstRule(Trim(lines[r][l + 1]))
    IN  /\ \A k \in BlocksFrom(r, l) : sections[r][k].kind \in KindsOfRule(rule)
        /\ Cardinality(BlocksFrom(r, l)) <= 1
        /\ rule \notin {"Blank", "Table"} => BlocksFrom(r, l) # {}

(***************************************************************************)
(* C25 as claimed.  Every line met in the default state is handled by the  *)
(* first rule it matches in the order heading, image reference, code       *)
(* fence, pipe table, block math, block quote, blank, paragraph, and by    *)
(* that rule only.                                                         *)
(***************************************************************************)
C25_PriorityOrder ==
    \A r \in Runs :
        pc[r] = "done" => \A n \in 1..Len(iterStart[r]) : HandledByFirstRule(r, n)

(***************************************************************************)
(* C26.  While a code fence is open every line up to the closing fence     *)
(* line goes into the CodeBlock as it is, untrimmed and not tokenized, and *)
(* nothing else happens for it: no block originates from a line inside the *)
(* fence and no image resolution is started for one.  The closing fence    *)
(* line is consumed, is not in the block, and the scan goes on in the      *)
(* default state at the line after it.                                     *)
(***************************************************************************)
\* the closing fence line (1-based) of the fence opened at line l (0-based),
\* or one past the end
ClosingFence(r, l) == FirstFrom(lines[r], l + 2, IsFenceLine)

FenceAsClaimed(r, n) ==
    LET l == iterStart[r][n]
        e == ClosingFence(r, l)
    IN  /\ \E k \in 1..Len(sections[r]) :
              /\ BlocksFrom(r, l) = {k}
              /\ sections[r][k].kind = "CodeBlock"
              /\ sections[r][k].lines = SubSeq(lines[r], l + 2, e - 1)
              /\ sections[r][k].runs = <<>>
        /\ \A j \in (l + 1)..(e - 1) : j < Len(lines[r]) => BlocksFrom(r, j) = {}
        /\ n < Len(iterStart[r]) => iterStart[r][n + 1] = e
        /\ n = Len(iterStart[r]) => e >= Len(lines[r])

\* every image resolution of the run was started by an image line that the
\* default state met
ResolutionsFromDefaultState(r) ==
    /\ \A k \in 1..Len(inflight[r]) :
          \E n \in 1..Len(iterStart[r]) :
              iterStart[r][n] = inflight[r][k].line /\ IterKind(r, n) = "image"
    /\ Len(netlog[r]) + Len(inflight[r]) =
          Cardinality({n \in 1..Len(iterStart[r]) : IterKind(r, n) = "image"})

C26_FenceOpaque ==
    \A r \in Runs :
        /\ ResolutionsFromDefaultState(r)
        /\ pc[r] = "done" =>
              \A n \in 1..Len(iterStart[r]) : IterKind(r, n) = "code" => FenceAsClaimed(r, n)

\* the later version has finished the markup with an image line and an
\* indented line inside a fence and a heading after it: a code block of the
\* two lines, a heading, and no image resolution
C26_Witness ==
    /\ pc[1] = "done"
    /\ ver = 2
    /\ lines[1] = FenceMarkup
    /\ netlog[1] = <<>>
    /\ Len(sections[1]) = 2
    /\ sections[1][1].lines = <<LineImage, LineIndented>>
    /\ sections[1][2].kind = "Heading"
    /\ iterStart[1] = <<0, 4>>

(***************************************************************************)
(* C27 as claimed.  A pipe line met in the default state makes the scan    *)
(* accumulate exactly the maximal run of consecutive pipe lines from that  *)
(* line and emit exactly one Table block for the run; the first line that  *)
(* does not start with a pipe is not consumed by the table and is          *)
(* classified in the default state.                                        *)
(***************************************************************************)
\* the first line (1-based) after line l (0-based) that is no pipe line, or
\* one past the end
RunEnd(r, l) == FirstFrom(lines[r], l + 1, IsNoPipeLine)

\* the table iteration takes the maximal run and nothing more
TakesMaximalRun(r, n) ==
    LET l == iterStart[r][n]
        e == RunEnd(r, l)
    IN  /\ e > l + 1
        /\ IterEnd(r, n) = e - 2
        /\ n < Len(iterStart[r]) => iterStart[r][n + 1] = e - 1
        /\ n = Len(iterStart[r]) => e = Len(lines[r]) + 1
        /\ \A j \in (l + 1)..(e - 2) : BlocksFrom(r, j) = {}

\* the one block of the run: a Table of the rows of the lines of the run
OneTableOfRun(r, n) ==
    LET l == iterStart[r][n]
        rows == TableRows(ver, AccumulatedRows(ver, SubSeq(lines[r], l + 1, RunEnd(r, l) - 1)))
    IN  \E k \in 1..Len(sections[r]) :
            /\ BlocksFrom(r, l) = {k}
            /\ sections[r][k] = TableBlock(ver, rows)

C27_OneTablePerRun ==
    \A r \in Runs :
        pc[r] = "done" =>
            \A n \in 1..Len(iterStart[r]) :
                IterKind(r, n) = "table" =>
                    TakesMaximalRun(r, n) /\ OneTableOfRun(r, n)

(***************************************************************************)
(* C27, amended.  The same, except that the later version emits no block   *)
(* for a run all of whose rows consist of dash cells only.                 *)
(***************************************************************************)
C27_OneTablePerRunUnlessEmpty ==
    \A r \in Runs :
        pc[r] = "done" =>
            \A n \in 1..Len(iterStart[r]) :
                IterKind(r, n) = "table" =>
                    /\ TakesMaximalRun(r, n)
                    /\ IF AllSeparatorRun(r, n)
                       THEN BlocksFrom(r, iterStart[r][n]) = {}
                       ELSE OneTableOfRun(r, n)

\* a finished later-version run over two rows and a paragraph line: one table
\* of two rows from line 0, and a paragraph from line 2
C27_Witness ==
    /\ pc[1] = "done"
    /\ ver = 2
    /\ lines[1] = <<LineRow, LineShortRow, LinePara>>
    /\ iterStart[1] = <<0, 2>>
    /\ origin[1] = <<0, 2>>
    /\ sections[1][1].kind = "Table"
    /\ Len(sections[1][1].rows) = 2
    /\ sections[1][2].kind = "Paragraph"

(***************************************************************************)
(* The style of the later downloadDocx.  An object is a function from the  *)
(* names of the properties it has to their values; a property that is not  *)
(* set is not in the domain, and reading it gives undefined.  An optional  *)
(* value is <<>> (undefined, or NaN for a number) or <<v>>.  Font sizes    *)
(* are in half-points, the unit of TextRun.size (size: fontSize * 2), so   *)
(* that 10.5 pt is the integer 21; line spacing is in tenths.              *)
(***************************************************************************)
MaxHashes == 12

StyleFields ==
    {"fontFace", "fontSize", "lineSpacing", "headingColor", "textColor",
     "alignment", "paragraphSpacing"}

NamedTemplates == {"STANDARD", "ACADEMIC", "NOTE"}

DEFAULT_STYLES ==
    [t \in NamedTemplates |->
        IF t = "STANDARD"
        THEN [fontFace |-> "SimSun", fontSize |-> 24, lineSpacing |-> 12,
              headingColor |-> "000000", textColor |-> "000000",
              alignment |-> "justify", paragraphSpacing |-> 200]
        ELSE IF t = "ACADEMIC"
        THEN [fontFace |-> "Times New Roman", fontSize |-> 21, lineSpacing |-> 15,
              headingColor |-> "000000", textColor |-> "000000",
              alignment |-> "justify", paragraphSpacing |-> 100]
        ELSE [fontFace |-> "Microsoft YaHei", fontSize |-> 22, lineSpacing |-> 15,
              headingColor |-> "2563EB", textColor |-> "374151",
              alignment |-> "left", paragraphSpacing |-> 300]]

\* the templates a caller may pass: the members of WordTemplate, and a name
\* that is none of them
Templates == NamedTemplates \cup {"CUSTOM", "OTHER"}

\* the values a caller's own style gives to the properties it sets
CallerStyle ==
    [fontFace |-> "Arial", fontSize |-> 28, lineSpacing |-> 10,
     headingColor |-> "FF0000", textColor |-> "111111",
     alignment |-> "center", paragraphSpacing |-> 150]

\* the objects a caller may pass as customStyle: any set of properties set
CustomStyles == {[f \in S |-> CallerStyle[f]] : S \in SUBSET StyleFields}

\* (template === CUSTOM && customStyle) ? customStyle
\*     : (DEFAULT_STYLES[template] || DEFAULT_STYLES[STANDARD])
ResolveStyle(t, custom) ==
    IF t = "CUSTOM" /\ custom # <<>> THEN custom[1]
    ELSE IF t \in DOMAIN DEFAULT_STYLES THEN DEFAULT_STYLES[t]
    ELSE DEFAULT_STYLES["STANDARD"]

\* obj.f: the value, or undefined
Get(obj, f) == IF f \in DOMAIN obj THEN <<obj[f]>> ELSE <<>>

\* x + n: NaN if x is undefined
Plus(x, n) == IF x = <<>> THEN <<>> ELSE <<x[1] + n>>

\* the font, size and color parseInlineStyles puts on each run: the ones
\* that are defined
RunProps(font, size, color) ==
    LET p == [font |-> font, size |-> size, color |-> color]
    IN  [k \in {q \in DOMAIN p : p[q] # <<>>} |-> p[k][1]]

\* parseInlineStyles(content, font, fontSize + (4-level)*2, headingColor)
HeadingRunProps(st, line) ==
    RunProps(Get(st, "fontFace"),
             Plus(Get(st, "fontSize"), SizeOffset(HeadingLevel(line)) * 2),
             Get(st, "headingColor"))

\* parseInlineStyles(line, font, fontSize, textColor)
ParagraphRunProps(st) ==
    RunProps(Get(st, "fontFace"), Get(st, "fontSize"), Get(st, "textColor"))

RECURSIVE Hashes(_)
Hashes(n) == IF n = 0 THEN <<>> ELSE <<"#">> \o Hashes(n - 1)

\* the heading lines: up to MaxHashes # and a title
HeadingLines == {Hashes(n) \o <<"T">> : n \in 1..MaxHashes}

InitStyle ==
    /\ text = <<>>
    /\ runs = <<>>
    /\ called = "none"
    /\ ScanIdle
    /\ template \in Templates
    /\ customStyle \in {<<>>} \cup {<<c>> : c \in CustomStyles}
    /\ docStyle = <<>>
    /\ headLine = <<>>
    /\ runStyle = <<>>
    /\ spc = "call"

StyleResolve ==
    /\ spc = "call"
    /\ docStyle' = ResolveStyle(template, customStyle)
    /\ spc' = "scan"
    /\ UNCHANGED <<template, customStyle, headLine, runStyle>>
    /\ UNCHANGED <<tokVars, scanVars>>

HeadingRuns ==
    /\ spc = "scan"
    /\ \E line \in HeadingLines :
          /\ headLine' = line
          /\ runStyle' = HeadingRunProps(docStyle, line)
    /\ spc' = "heading"
    /\ UNCHANGED <<template, customStyle, docStyle>>
    /\ UNCHANGED <<tokVars, scanVars>>

ParagraphRuns ==
    /\ spc = "scan"
    /\ runStyle' = ParagraphRunProps(docStyle)
    /\ spc' = "paragraph"
    /\ UNCHANGED <<template, customStyle, docStyle, headLine>>
    /\ UNCHANGED <<tokVars, scanVars>>

NextStyle == StyleResolve \/ HeadingRuns \/ ParagraphRuns

SpecStyle == InitStyle /\ [][NextStyle]_vars

(***************************************************************************)
(* C28.  Style resolution: every property of the style that a run uses is  *)
(* defined; a property the caller's style sets has the caller's value and  *)
(* a property it leaves unset has the value of a named preset; a custom    *)
(* template without a style, and an unknown template, give the standard    *)
(* preset; and a named preset ignores the caller's style.                  *)
(***************************************************************************)
CallerStyleUsed == template = "CUSTOM" /\ customStyle # <<>>

FieldResolved(f) ==
    /\ f \in DOMAIN docStyle
    /\ IF CallerStyleUsed /\ f \in DOMAIN customStyle[1]
       THEN docStyle[f] = customStyle[1][f]
       ELSE \E t \in NamedTemplates : docStyle[f] = DEFAULT_STYLES[t][f]

C28_StyleResolution ==
    /\ spc \in {"scan", "heading", "paragraph"} =>
          /\ \A f \in StyleFields : FieldResolved(f)
          /\ ~CallerStyleUsed /\ template \notin NamedTemplates =>
                docStyle = DEFAULT_STYLES["STANDARD"]
          /\ template \in NamedTemplates => docStyle = DEFAULT_STYLES[template]
    /\ spc \in {"heading", "paragraph"} => DOMAIN runStyle = {"font", "size", "color"}

(***************************************************************************)
(* C30.  For a heading line with any number of leading # and each of the   *)
(* three presets, the size of the heading's runs, the base size plus       *)
(* (4 - level) * 2 points, is strictly positive.                           *)
(***************************************************************************)
C30_HeadingSizePositive ==
    spc = "heading" /\ template \in NamedTemplates =>
        "size" \in DOMAIN runStyle /\ runStyle["size"] > 0

(***************************************************************************)
(* C29.  Every input line is consumed exactly once by the scan: a step     *)
(* leaves the line index where it is or moves it by one, and it moves it   *)
(* only over a line that the current iteration classified in the default   *)
(* state, over a line accumulated into the open code, table or math block, *)
(* or over a closing line; the iterations begin at strictly increasing     *)
(* lines, and the line after a closing fence and the line that ends a      *)
(* table run begin exactly one iteration each.                             *)
(***************************************************************************)
\* the step of run r moves the index over line i[r] for one of the reasons
ConsumesCurrentLine(r) ==
    \/ /\ iterStart'[r] # <<>>
       /\ iterStart'[r][Len(iterStart'[r])] = i[r]
       /\ i[r] < Len(lines'[r])
    \/ pc[r] \in {"code", "math"}
    \/ pc[r] = "table" /\ i[r] < Len(lines[r])
                       /\ StartsWith(Trim(lines[r][i[r] + 1]), <<"|">>)

IndexStep(r) ==
    /\ i'[r] \in {i[r], i[r] + 1}
    /\ i'[r] = i[r] + 1 => ConsumesCurrentLine(r)

\* the iterations that began at line l
IterationsAt(r, l) == {n \in 1..Len(iterStart[r]) : iterStart[r][n] = l}

ClassifiedOnceAfter(r, n) ==
    LET l == iterStart[r][n]
        next == IF IterKind(r, n) = "code" THEN ClosingFence(r, l)
                ELSE RunEnd(r, l) - 1
    IN  next < Len(lines[r]) => Cardinality(IterationsAt(r, next)) = 1

ScanCoversLines(r) ==
    /\ \A n \in 1..(Len(iterStart[r]) - 1) : iterStart[r][n] < iterStart[r][n + 1]
    /\ iterStart[r] # <<>> => iterStart[r][1] = 0 /\ IterLine(r) <= i[r]
    /\ pc[r] = "done" =>
          /\ i[r] >= Len(lines[r])
          /\ \A l \in 0..(Len(lines[r]) - 1) :
                Cardinality({n \in 1..Len(iterStart[r]) :
                                iterStart[r][n] <= l /\ l <= IterEnd(r, n)}) = 1
          /\ \A n \in 1..Len(iterStart[r]) :
                IterKind(r, n) \in {"code", "table"} => ClassifiedOnceAfter(r, n)

C29_EachLineOnce ==
    /\ [](\A r \in Runs : ScanCoversLines(r))
    /\ [][\A r \in Runs : IndexStep(r)]_vars

\* the later version has finished a markup in which a paragraph line ends a
\* table run and a fence is opened on the last line: three iterations, one
\* from each line, and the index ends beyond the fence
C29_Witness ==
    /\ pc[1] = "done"
    /\ ver = 2
    /\ lines[1] = <<LineRow, LinePara, LineFence>>
    /\ iterStart[1] = <<0, 1, 2>>
    /\ i[1] = 4

====
